---- MODULE Spec2Model ----
(***************************************************************************)
(* A model of the number-line page: the DiscreteStepper (ladder/stepper),  *)
(* the page state and its handlers (main.ts, in its immediate-render and   *)
(* its deferred-render build), and the ParticleBlocks frame loop           *)
(* (ladder/particles.ts).                                                  *)
(*                                                                         *)
(* Time is kept as elapsed milliseconds since an event (the last step, the *)
(* start of a transition), saturated at the largest threshold the code     *)
(* compares it with.  The display's refresh callbacks are kept in two      *)
(* queues: rafNext (registered for the next display frame) and rafNow (the *)
(* callbacks of the frame being run, in registration order).  Input events *)
(* happen between frames only, as on the browser's single thread.          *)
(***************************************************************************)
EXTENDS Integers, Sequences, FiniteSets, TLC

----------------------------------------------------------------------------
\* Program constants.

K_MIN == 0
K_MAX == 16
StepMsOn == 320
StepMsOff == 0
DefaultStepMs == 320
TransitionMs == 360
UnitsAcross == 20
kAnimDurMs == 360
rippleSpeedPx == 520
RippleSettleMs == 1200
MaxBlocks == 10000
CountPowOffset == 4

\* Bounds of the model.

\* The shortest time between two display frames, in ms; a stalled frame takes 3x.
FrameMs == 120
\* The highest level the requests of the page specification ask for.
MaxLevel == 1
\* Requests issued in the specifications that let requests stop.
MaxRequests == 2
\* Page render callbacks kept in a queue; a further one is folded into the last.
MaxRenderRaf == 2
\* Frame-loop callbacks kept in a queue; a further one is folded into the last.
MaxLoopRaf == 2
\* Taps whose ripples are alive at once.
MaxRipples == 1
\* Events the block field gets after the page has loaded.
MaxEvents == 2
\* Taps made on the block field after the page has loaded.
MaxTaps == 9

FrameDts == {FrameMs, 3 * FrameMs}

----------------------------------------------------------------------------
\* Numbers.  A marker value is a decimal m * 10^e, normalised so that m has no
\* trailing zero (0 is [m |-> 0, e |-> 0]); levels up to 16 need 10^16, which a
\* machine integer of the checker cannot hold.

\* The element of a one-element set: Only({F(x) : x \in {e}}) is F(e), with e
\* worked out once.
Only(S) == CHOOSE x \in S : TRUE

Abs(n) == IF n < 0 THEN -n ELSE n

Sign(n) == IF n > 0 THEN 1 ELSE IF n < 0 THEN -1 ELSE 0

IntMin(a, b) == IF a < b THEN a ELSE b

IntMax(a, b) == IF a > b THEN a ELSE b

RECURSIVE Norm(_, _)
Norm(m, e) ==
    IF m = 0 THEN [m |-> 0, e |-> 0]
    ELSE IF m % 10 = 0 THEN Norm(m \div 10, e + 1)
    ELSE [m |-> m, e |-> e]

RECURSIVE Digits(_)
Digits(n) == IF n = 0 THEN 0 ELSE 1 + Digits(n \div 10)

Zero == Norm(0, 0)

DecNeg(a) == [m |-> -a.m, e |-> a.e]

DecAbs(a) == [m |-> Abs(a.m), e |-> a.e]

\* The position of the leading digit of a non-zero decimal.
Order(a) == Digits(Abs(a.m)) + a.e

\* a < b for a, b > 0
DecLtPos(a, b) ==
    \/ Order(a) < Order(b)
    \/ /\ Order(a) = Order(b)
       /\ LET lo == IntMin(a.e, b.e)
          IN  a.m * 10^(a.e - lo) < b.m * 10^(b.e - lo)

DecLt(a, b) ==
    IF a.m < 0 /\ b.m < 0 THEN DecLtPos(DecNeg(b), DecNeg(a))
    ELSE IF a.m <= 0 \/ b.m <= 0 THEN Sign(a.m) < Sign(b.m)
    ELSE DecLtPos(a, b)

DecLeq(a, b) == ~DecLt(b, a)

\* Math.min, Math.max
DecMin(a, b) == IF DecLt(b, a) THEN b ELSE a

DecMax(a, b) == IF DecLt(a, b) THEN b ELSE a

\* Math.pow(10, k)
Pow10(k) == Norm(1, k)

clamp(v, lo, hi) == DecMin(DecMax(v, lo), hi)

clampInt(v, lo, hi) == IntMin(IntMax(v, lo), hi)

----------------------------------------------------------------------------
\* The coordinate mapping of a level.

NoEngine == [k |-> -1]

NoProbe == [op |-> "none"]

createLadderEngine(k) ==
    [k |-> k,
     maxAbsValue |-> Pow10(k),
     unitValue |-> IF k = 0 THEN Norm(1, -1) ELSE Pow10(k - 1)]

\* The value at the pixel offset u * unitLength (u layout units from the left
\* edge; the viewport is UnitsAcross units wide and 0 sits at its center).
valueAt(eng, u) == Norm(eng.unitValue.m * (u - UnitsAcross \div 2), eng.unitValue.e)

----------------------------------------------------------------------------
\* The mapping in pixels.  A pixel offset, and the value under it, is an exact
\* fraction n/d * 10^e, kept in lowest terms: d has no factor in common with n
\* or with 10, and n has no trailing zero (0 is n = 0, d = 1, e = 0), so that
\* two equal numbers are the same record.

RECURSIVE GCD(_, _)
GCD(a, b) == IF b = 0 THEN a ELSE GCD(b, a % b)

RECURSIVE QNorm(_, _, _)
QNorm(n, d, e) ==
    IF n = 0 THEN [n |-> 0, d |-> 1, e |-> 0]
    ELSE IF GCD(Abs(n), d) > 1
         THEN QNorm(n \div GCD(Abs(n), d), d \div GCD(Abs(n), d), e)
    ELSE IF d % 2 = 0 THEN QNorm(n * 5, d \div 2, e - 1)
    ELSE IF d % 5 = 0 THEN QNorm(n * 2, d \div 5, e - 1)
    ELSE IF n % 10 = 0 THEN QNorm(n \div 10, d, e + 1)
    ELSE [n |-> n, d |-> d, e |-> e]

QRat(n, d) == QNorm(n, d, 0)

QDec(v) == QNorm(v.m, 1, v.e)

QNeg(a) == [a EXCEPT !.n = -a.n]

QAdd(a, b) ==
    IF a.n = 0 THEN b
    ELSE IF b.n = 0 THEN a
    ELSE LET lo == IntMin(a.e, b.e)
         IN  QNorm(a.n * 10^(a.e - lo) * b.d + b.n * 10^(b.e - lo) * a.d,
                   a.d * b.d, lo)

QSub(a, b) == QAdd(a, QNeg(b))

QMul(a, b) == QNorm(a.n * b.n, a.d * b.d, a.e + b.e)

\* a / b, for b # 0
QDiv(a, b) == QNorm(Sign(b.n) * a.n * b.d, a.d * Abs(b.n), a.e - b.e)

\* a <= b
QLeq(a, b) == QSub(b, a).n >= 0

\* Math.max(1, Math.floor(width)), the width given in tenths of a pixel
safeWidth(width10) == IntMax(1, width10 \div 10)

\* A unit length that spreads the range over half as many units.
unitLengthWide(w) == QRat(w, UnitsAcross \div 2)

\* safeWidth / 20
unitLength(w) == QRat(w, UnitsAcross)

\* new NumberLine(options): the unit length locked by the two breakpoints, the
\* unit value by zoomFactor at magnification 0, and initialDisplacement 0.
NumberLine(uv, ul) == [unitValue |-> QDec(uv), unitLength |-> ul, displacement |-> QRat(0, 1)]

\* numberLine.panTo(position)
panTo(nl, position) == [nl EXCEPT !.displacement = position]

\* numberLine.valueAt(pos) = (pos + displacement) / (unitLength / unitValue)
numberLineValueAt(nl, pos) ==
    QDiv(QAdd(pos, nl.displacement), QDiv(nl.unitLength, nl.unitValue))

\* createLadderEngine(k, width) with its number line: createLadderEngine(k)
\* above is the same mapping counted in layout units.
createLadderEngineAt(k, width10) ==
    LET w == safeWidth(width10)
        e == createLadderEngine(k)
    IN  [k |-> k, width |-> w,
         maxAbsValue |-> e.maxAbsValue, unitValue |-> e.unitValue,
         numberLine |-> panTo(NumberLine(e.unitValue, unitLength(w)), QRat(-w, 2))]

\* A position for a value that pans the wrong way.
valueToXWithEngineAdd(value, eng) ==
    QAdd(QMul(value, QDiv(eng.numberLine.unitLength, eng.numberLine.unitValue)),
         eng.numberLine.displacement)

valueToXWithEngine(value, eng) ==
    LET ratio == QDiv(eng.numberLine.unitLength, eng.numberLine.unitValue)
    IN  QSub(QMul(value, ratio), eng.numberLine.displacement)

----------------------------------------------------------------------------
VARIABLES
    \* DiscreteStepper
    running,        \* this.running
    rafId,          \* this.rafId != null
    currentK,       \* this.currentK
    targetK,        \* this.targetK
    stepElapsed,    \* (time of the current frame) - this.lastStepAt, saturated
    stepMs,         \* this.stepMs
    \* the page (main.ts)
    build,          \* "immediate" (render() in the handlers) or "deferred" (requestRender())
    state,          \* the page state: k, targetK, stepMode, symmetric, valueA, valueB
    engine,         \* the cached mapping, NoEngine before the first render
    transition,     \* the level Transition, or NoTransition
    renderScheduled,
    renderNeeded,
    \* the display's refresh callbacks
    rafNext,
    rafNow,
    \* history
    stepParity,     \* flips at every invocation of the step callback
    reported,       \* the level the last invocation reported (the initial level before any)
    startK,         \* the level at the last request made while idle
    reqsSinceIdle,  \* requests since (and including) that one: 0, 1, or 2 for "several"
    announced,      \* the levels reported since that request, while it is the only one
    requested,      \* the level the last setTargetK was called with (0 before any)
    probe,          \* the last mapping built apart from the page, and what was asked of it
    reqLeft,        \* requests left, in the specifications that let requests stop
    \* ParticleBlocks (particles.ts)
    blocks,         \* the fields of the ParticleBlocks object
    passes,         \* history: render passes made in the display frame being run
    drawn           \* history: the active block counts the last render pass drew

stepperVars == <<running, rafId, currentK, targetK, stepElapsed, stepMs>>
pageVars == <<build, state, engine, transition, renderScheduled, renderNeeded>>
histVars == <<stepParity, reported, startK, reqsSinceIdle, announced, requested, probe>>
blockVars == <<blocks, passes, drawn>>
vars == <<stepperVars, pageVars, rafNext, rafNow, histVars, reqLeft, blockVars>>

NoTransition == [fromK |-> -1, toK |-> -1, elapsed |-> 0, durationMs |-> 0]

\* The page's mutable state as one value, so that a handler's calls compose.
Page ==
    [state |-> state, engine |-> engine, transition |-> transition,
     rafNext |-> rafNext, renderScheduled |-> renderScheduled,
     renderNeeded |-> renderNeeded, b |-> blocks, drawn |-> drawn]

Commit(P) ==
    \E Q \in {P} :
        /\ state' = Q.state
        /\ engine' = Q.engine
        /\ transition' = Q.transition
        /\ rafNext' = Q.rafNext
        /\ renderScheduled' = Q.renderScheduled
        /\ renderNeeded' = Q.renderNeeded
        /\ blocks' = Q.b
        /\ drawn' = Q.drawn

\* requestAnimationFrame(render): render callbacks beyond MaxRenderRaf are folded
\* into the ones pending (they all run the same render()).
AddRenderRaf(q) ==
    IF Cardinality({i \in 1..Len(q) : q[i] = "render"}) >= MaxRenderRaf
    THEN q ELSE Append(q, "render")

----------------------------------------------------------------------------
\* ParticleBlocks (particles.ts): the block field behind the number line, and
\* its frame loop.  The page calls set, addRipple and resize only; ripples stay
\* enabled and the object is never destroyed.

\* The page specifications leave the ParticleBlocks object out.
NoBlocks == [mode |-> "none"]

NoDraw == [negCount |-> -1, posCount |-> -1]

NoParams == [k |-> -1]

NoKTransition == [durMs |-> 0]

\* Viewport sizes <<width, height>>, with a whole diagonal.
Sizes == {<<3, 4>>, <<6, 8>>}

\* Math.hypot(this.width, this.height)
Hypot(sz) == CHOOSE d \in 0..(sz[1] + sz[2]) : d * d = sz[1] * sz[1] + sz[2] * sz[2]

\* t - r.start < diag / rippleSpeedPx + 1.2, for a ripple of the given age in ms
RippleAlive(age, sz) == rippleSpeedPx * (age - RippleSettleMs) < 1000 * Hypot(sz)

\* An age at which no ripple is alive in any viewport: ages saturate there.
RippleAgeCap ==
    CHOOSE a \in 0..(2 * RippleSettleMs) :
        /\ \A sz \in Sizes : ~RippleAlive(a, sz)
        /\ \A sz \in Sizes : a = 0 \/ \E s2 \in Sizes : RippleAlive(a - 1, s2)

\* Math.trunc
DecTrunc(v) ==
    IF v.e >= 0 THEN v
    ELSE IF -v.e >= 10 THEN Zero
    ELSE Norm(Sign(v.m) * (Abs(v.m) \div 10^(-v.e)), 0)

\* Math.floor(v / 10^u) for a whole v >= 0.  Every quotient of 10^5 or more is
\* returned as 10^5: the callers clamp it to MaxBlocks alike.
FloorDivPow10(v, u) ==
    IF v.m = 0 THEN 0
    ELSE IF v.e >= u
    THEN IF Order(v) - u > 5 THEN 10^5 ELSE v.m * 10^(v.e - u)
    ELSE IF u - v.e >= 10 THEN 0
    ELSE v.m \div 10^(u - v.e)

\* A block unit one level finer than the code's.
unitPowFiner(k) == IntMax(0, k - CountPowOffset - 1)

\* Math.max(0, p.k - 4)
unitPow(k) == IntMax(0, k - CountPowOffset)

\* clampInt(Math.floor(Math.abs(Math.trunc(v)) / unitValue), 0, 10000)
blockCount(k, v) ==
    Only({clampInt(n, 0, MaxBlocks) :
             n \in {FloorDivPow10(a, unitPow(k)) :
                       a \in {DecAbs(t) : t \in {DecTrunc(x) : x \in {v}}}}})

\* Math.min(p.valueA, p.valueB, 0), Math.max(p.valueA, p.valueB, 0)
negValue(p) == Only({DecMin(m, Zero) : m \in {DecMin(p.valueA, p.valueB)}})

posValue(p) == Only({DecMax(m, Zero) : m \in {DecMax(p.valueA, p.valueB)}})

\* The counts applyCounts(field, p) sets and returns.
applyCounts(p) ==
    Only({[negCount |-> neg, posCount |-> pos] :
             neg \in {blockCount(p.k, negValue(p))},
             pos \in {blockCount(p.k, posValue(p))}})

\* 2D counts with a block unit one level finer than the WebGL path's.
baseCountsFiner(p) ==
    Only({[negCount |-> clampInt(neg, 0, MaxBlocks), posCount |-> clampInt(pos, 0, MaxBlocks)] :
             neg \in {FloorDivPow10(a, unitPowFiner(p.k)) :
                         a \in {DecAbs(t) : t \in {DecTrunc(v) : v \in {negValue(p)}}}},
             pos \in {FloorDivPow10(a, unitPowFiner(p.k)) :
                         a \in {DecAbs(t) : t \in {DecTrunc(v) : v \in {posValue(p)}}}}})

\* baseNegCount and basePosCount of renderFrame2D, which computes them in line:
\* clampInt(Math.floor(Math.abs(Math.trunc(v)) / 10^max(0, k - 4)), 0, 10000)
baseCounts(p) ==
    Only({[negCount |-> clampInt(neg, 0, MaxBlocks), posCount |-> clampInt(pos, 0, MaxBlocks)] :
             neg \in {FloorDivPow10(a, IntMax(0, p.k - CountPowOffset)) :
                         a \in {DecAbs(t) : t \in {DecTrunc(v) : v \in {negValue(p)}}}},
             pos \in {FloorDivPow10(a, IntMax(0, p.k - CountPowOffset)) :
                         a \in {DecAbs(t) : t \in {DecTrunc(v) : v \in {posValue(p)}}}}})

\* clamp((now - startMs) / durMs, 0, 1), in thousandths
progress(tr) == clampInt((tr.elapsed * 1000) \div tr.durMs, 0, 1000)

\* easeInOutCubic and smoothstep, arguments and result in thousandths
easeInOutCubic(t) ==
    IF t < 500 THEN (4 * t * t * t) \div 1000000
    ELSE 1000 - ((2000 - 2 * t) * (2000 - 2 * t) * (2000 - 2 * t)) \div 2000000

smoothstep(edge0, edge1, x) ==
    Only({(((t * t) \div 1000) * (3000 - 2 * t)) \div 1000 :
             t \in {clampInt(((x - edge0) * 1000) \div IntMax(1, edge1 - edge0),
                             0, 1000)}})

\* smoothstep(0.22, 0.78, e)
mix(tr) ==
    Only({smoothstep(220, 780, e) : e \in {easeInOutCubic(t) : t \in {progress(tr)}}})

\* clampInt(Math.round(from + (to - from) * mix), 0, 10000)
interp(from, to, m) ==
    Only({clampInt(n, 0, MaxBlocks) : n \in {from + ((to - from) * m + 500) \div 1000}})

interpCounts(fromFull, toFull, m) ==
    [negCount |-> interp(fromFull.negCount, toFull.negCount, m),
     posCount |-> interp(fromFull.posCount, toFull.posCount, m)]

\* An incoming field drawn at 10^dir for the whole transition.
toScaleLogHeld(tr) == tr.dir * tr.durMs

\* log10 of fromScale = Math.pow(10, -tr.dir * t) and of toScale =
\* Math.pow(10, tr.dir * (1 - t)), in units of 1 / durMs (t = elapsed / durMs)
fromScaleLog(tr) == -tr.dir * tr.elapsed

toScaleLog(tr) == tr.dir * (tr.durMs - tr.elapsed)

\* What a pass drew of a transition: its direction and progress, the scale of the
\* outgoing field and, in a cross-fade, of the incoming one.
NoZoom == [cross |-> FALSE, dir |-> 0]

Zoom(tr, cross) ==
    [cross |-> cross, dir |-> tr.dir, elapsed |-> tr.elapsed, durMs |-> tr.durMs,
     fromK |-> tr.fromParams.k, toK |-> tr.toParams.k,
     fromScaleLog |-> fromScaleLog(tr),
     toScaleLog |-> IF cross THEN toScaleLog(tr) ELSE 0]

\* A field: group.visible, log10 of group.scale in units of 1 / durMs, and the
\* counts of negActive and posActive.
Field(visible, scaleLog, counts) ==
    [visible |-> visible, scaleLog |-> scaleLog,
     negCount |-> counts.negCount, posCount |-> counts.posCount]

\* The object and what it works on: the callbacks registered for the next frame
\* (q) and the record of what the last pass drew (drawn).
World == [b |-> blocks, q |-> rafNext, drawn |-> drawn]

CommitBlocks(W) ==
    \E V \in {W} :
        /\ blocks' = V.b
        /\ rafNext' = V.q
        /\ drawn' = V.drawn

AddLoopRaf(q) ==
    IF Cardinality({i \in 1..Len(q) : q[i] = "loop"}) >= MaxLoopRaf
    THEN q ELSE Append(q, "loop")

requestFrame(W) ==
    IF W.b.destroyed THEN W
    ELSE IF W.b.rafId THEN [W EXCEPT !.b.needsFrame = TRUE]
    ELSE [W EXCEPT !.b.needsFrame = TRUE, !.b.rafId = TRUE, !.q = AddLoopRaf(W.q)]

resize(W, sz) == requestFrame([W EXCEPT !.b.size = sz, !.b.layoutDirty = TRUE])

\* A fallback that measures the host again and leaves the mode as it is.
enable2DFallbackKeepMode(W, sz) == resize(W, sz)

enable2DFallback(W, sz) == resize([W EXCEPT !.b.mode = "2d"], sz)

\* A transition that starts again at every set().
kTransitionRestarted(b, p) ==
    [fromField |-> b.activeField,
     toField |-> IF b.lowEnd THEN b.activeField ELSE 1 - b.activeField,
     singleField |-> b.lowEnd,
     dir |-> IF p.k > b.params.k THEN 1 ELSE -1,
     elapsed |-> 0, durMs |-> kAnimDurMs,
     fromParams |-> b.params, toParams |-> p]

\* The transition set() leaves, after the first call: a new one when the
\* level changes, otherwise the one that is on, with its toParams replaced.
kTransitionAfterSet(b, p) ==
    LET kChanged == b.params.k # p.k
        fromField == b.activeField
        singleField == b.lowEnd
        toField == IF singleField THEN fromField ELSE 1 - fromField
    IN  IF kChanged
        THEN [fromField |-> fromField, toField |-> toField,
              singleField |-> singleField,
              dir |-> IF p.k > b.params.k THEN 1 ELSE -1,
              elapsed |-> 0, durMs |-> kAnimDurMs,
              fromParams |-> b.params, toParams |-> p]
        ELSE IF b.kTransition # NoKTransition /\ p.k = b.kTransition.toParams.k
        THEN [b.kTransition EXCEPT !.toParams = p]
        ELSE b.kTransition

\* A first call that starts a transition from the level it is given.
firstSetWithTransition(W, p) ==
    requestFrame(
        [W EXCEPT !.b.params = p, !.b.size = p.size, !.b.activeField = 0,
                  !.b.kTransition = kTransitionRestarted([W.b EXCEPT !.params = p], p),
                  !.b.layoutDirty = TRUE])

\* set(), the first call: if (!this.params) { ... return; }
firstSet(W, p) ==
    requestFrame(
        [W EXCEPT !.b.params = p, !.b.size = p.size, !.b.activeField = 0,
                  !.b.fields = IF W.b.mode = "webgl"
                               THEN [i \in {0, 1} |->
                                        [W.b.fields[i] EXCEPT !.visible = (i = 0)]]
                               ELSE W.b.fields,
                  !.b.kTransition = NoKTransition,
                  !.b.layoutDirty = TRUE])

set(W, p) ==
    LET b == W.b
        kChanged == b.params.k # p.k
        sizeChanged == p.size # b.size
        fromField == b.activeField
        singleField == b.lowEnd
        toField == IF singleField THEN fromField ELSE 1 - fromField
        tr == kTransitionAfterSet(b, p)
    IN  IF b.params = NoParams
        THEN firstSet(W, p)
        ELSE requestFrame(
                 [W EXCEPT !.b.params = p, !.b.size = p.size, !.b.kTransition = tr,
                           !.b.fields = IF kChanged /\ b.mode = "webgl"
                                        THEN [i \in {0, 1} |->
                                                 IF i = toField \/ (~singleField /\ i = fromField)
                                                 THEN [b.fields[i] EXCEPT !.visible = TRUE]
                                                 ELSE b.fields[i]]
                                        ELSE b.fields,
                           !.b.layoutDirty = b.layoutDirty \/ sizeChanged])

\* A cap that is the same on both tiers.
maxRipplesOneTier(b) == 16

\* this.perf.lowEnd ? 8 : 16
maxRipples(b) == IF b.lowEnd THEN 8 ELSE 16

\* this.ripples.splice(0, this.ripples.length - maxRipples)
splice(r, cap) == IF Len(r) > cap THEN SubSeq(r, Len(r) - cap + 1, Len(r)) ELSE r

\* A tap that leaves its mirror image out.
addRippleUnmirrored(W, x, y) ==
    requestFrame([W EXCEPT !.b.ripples =
        splice(Append(@, [x |-> x, y |-> W.b.size[2] - y, age |-> 0]), maxRipples(W.b))])

\* A ripple is its center and its age in ms, (time of the current frame) -
\* start; ripplesEnabled stays true, the page never calls setRipplesEnabled.
addRipple(W, x, y) ==
    LET yUp == W.b.size[2] - y
        pushed == W.b.ripples \o <<[x |-> x, y |-> yUp, age |-> 0],
                                   [x |-> W.b.size[1] - x, y |-> yUp, age |-> 0]>>
    IN  requestFrame([W EXCEPT !.b.ripples = splice(pushed, maxRipples(W.b))])

\* Whether the ripple deformation of a pass adds blocks to the dirty lists: the
\* full update of n > 0 active blocks does; the local windows (low-end active
\* blocks, the base grid) do when the wave band crosses a block (crossed).
touches(b, n, crossed) == b.ripples # <<>> /\ ((~b.lowEnd /\ n > 0) \/ crossed)

\* The fields after the pass that ends a cross-fade, with the field faded out
\* left visible.
discardCrossLeaveBoth(W) ==
    Only({
        [W EXCEPT !.b.activeField = tr.toField,
                  !.b.kTransition = NoKTransition,
                  !.b.fields = [i \in {0, 1} |->
                                   IF i = tr.toField THEN Field(TRUE, 0, toFull)
                                   ELSE [W.b.fields[i] EXCEPT !.scaleLog = 0]]] :
        tr \in {W.b.kTransition}, toFull \in {applyCounts(W.b.kTransition.toParams)}})

\* renderFrame, if (t >= 1) of the cross-fade branch.
discardCross(W) ==
    Only({
        [W EXCEPT !.b.activeField = tr.toField,
                  !.b.kTransition = NoKTransition,
                  !.b.fields = [i \in {0, 1} |->
                                   IF i = tr.toField THEN Field(TRUE, 0, toFull)
                                   ELSE [W.b.fields[i] EXCEPT !.visible = FALSE,
                                                              !.scaleLog = 0]]] :
        tr \in {W.b.kTransition}, toFull \in {applyCounts(W.b.kTransition.toParams)}})

\* renderFrame, kTransition branch with two fields, up to renderer.render.
crossFrame(W, crossed) ==
    Only({
        LET tr == b.kTransition
            n == fromFull.negCount + fromFull.posCount + ic.negCount + ic.posCount
        IN  [W EXCEPT !.b.layoutDirty = FALSE,
                      !.b.fields = [i \in {0, 1} |->
                                       IF i = tr.toField
                                       THEN Field(TRUE, toScaleLog(tr), ic)
                                       ELSE Field(TRUE, fromScaleLog(tr), fromFull)],
                      !.b.dirty = b.dirty \/ touches(b, n, crossed),
                      !.drawn = [negCount |-> ic.negCount, posCount |-> ic.posCount,
                                 of |-> b.params, stable |-> FALSE,
                                 zoom |-> Zoom(tr, TRUE)]] :
        b \in {W.b},
        fromFull \in {applyCounts(W.b.kTransition.fromParams)},
        ic \in {interpCounts(fromFull, toFull, m) :
                  fromFull \in {applyCounts(W.b.kTransition.fromParams)},
                  toFull \in {applyCounts(W.b.kTransition.toParams)},
                  m \in {mix(W.b.kTransition)}}})

\* renderFrame, kTransition branch with a single field (low-end devices).
singleFrame(W, crossed) ==
    Only({
        LET tr == b.kTransition
            done == tr.elapsed >= tr.durMs
        IN  [W EXCEPT !.b.layoutDirty = FALSE,
                      !.b.kTransition = IF done THEN NoKTransition ELSE tr,
                      !.b.fields[tr.fromField] =
                          IF done THEN Field(TRUE, 0, toFull)
                          ELSE Field(TRUE, fromScaleLog(tr), ic),
                      !.b.dirty = b.dirty \/ touches(b, ic.negCount + ic.posCount, crossed),
                      !.drawn = [negCount |-> ic.negCount, posCount |-> ic.posCount,
                                 of |-> b.params, stable |-> FALSE,
                                 zoom |-> Zoom(tr, FALSE)]] :
        b \in {W.b},
        toFull \in {applyCounts(W.b.kTransition.toParams)},
        ic \in {interpCounts(fromFull, toFull, m) :
                  fromFull \in {applyCounts(W.b.kTransition.fromParams)},
                  toFull \in {applyCounts(W.b.kTransition.toParams)},
                  m \in {mix(W.b.kTransition)}}})

\* renderFrame without a kTransition: one stable field, and restoreBaseIfNeeded.
stableFrame(W, crossed) ==
    Only({
        [W EXCEPT !.b.layoutDirty = FALSE,
                  !.b.fields = [i \in {0, 1} |->
                                   IF i = b.activeField THEN Field(TRUE, 0, counts)
                                   ELSE [b.fields[i] EXCEPT !.visible = FALSE]],
                  !.b.dirty = IF b.ripples # <<>>
                              THEN b.dirty \/ touches(b, counts.negCount + counts.posCount,
                                                      crossed)
                              ELSE FALSE,
                  !.drawn = [negCount |-> counts.negCount, posCount |-> counts.posCount,
                             of |-> b.params, stable |-> TRUE, zoom |-> NoZoom]] :
        b \in {W.b}, counts \in {applyCounts(W.b.params)}})

renderFrame2D(W) ==
    IF W.b.kTransition = NoKTransition
    THEN Only({
             [W EXCEPT !.b.layoutDirty = FALSE,
                       !.drawn = [negCount |-> base.negCount, posCount |-> base.posCount,
                                  of |-> W.b.params, stable |-> TRUE, zoom |-> NoZoom]] :
             base \in {baseCounts(W.b.params)}})
    ELSE Only({
             [W EXCEPT !.b.layoutDirty = FALSE,
                       !.b.kTransition = IF tr.elapsed >= tr.durMs
                                         THEN NoKTransition ELSE tr,
                       !.drawn = [negCount |-> ic.negCount, posCount |-> ic.posCount,
                                  of |-> W.b.params, stable |-> FALSE,
                                  zoom |-> Zoom(tr, FALSE)]] :
             tr \in {W.b.kTransition},
             ic \in {interpCounts(base, toFull, m) :
                       base \in {baseCounts(W.b.params)},
                       toFull \in {baseCounts(W.b.kTransition.toParams)},
                       m \in {mix(W.b.kTransition)}}})

\* A probe registered by every WebGL pass.
probeAlways(W) ==
    [W EXCEPT !.b.checkedBlackFrame = TRUE, !.q = Append(W.q, "probe")]

\* The black-frame probe the first WebGL pass registers.
probeOnce(W) ==
    IF W.b.checkedBlackFrame THEN W
    ELSE [W EXCEPT !.b.checkedBlackFrame = TRUE, !.q = Append(W.q, "probe")]

\* What a pass draws and leaves in the fields.
drawFrame(W, crossed) ==
    IF W.b.mode # "webgl" THEN renderFrame2D(W)
    ELSE IF W.b.kTransition = NoKTransition THEN stableFrame(W, crossed)
    ELSE IF W.b.kTransition.singleField THEN singleFrame(W, crossed)
    ELSE IF W.b.kTransition.elapsed >= W.b.kTransition.durMs
    THEN Only({discardCross(D) : D \in {crossFrame(W, crossed)}})
    ELSE crossFrame(W, crossed)

\* The requestFrame calls of a pass: deformBaseLocally while ripples are alive,
\* and the transition branches while the transition goes on.
keepRunning(W) ==
    IF W.b.kTransition # NoKTransition \/ W.b.ripples # <<>>
    THEN requestFrame(W) ELSE W

renderFrame(W, crossed) ==
    IF W.b.params = NoParams
    THEN IF W.b.mode # "webgl" THEN W
         ELSE [probeOnce(W) EXCEPT
                  !.b.fields = [i \in {0, 1} |->
                                   [W.b.fields[i] EXCEPT !.negCount = 0, !.posCount = 0]]]
    ELSE Only({keepRunning(D) :
                  D \in {drawFrame(P, crossed) :
                            P \in {IF W.b.mode = "webgl" THEN probeOnce(W) ELSE W}}})

\* The start of the loop callback: the ripples that have run out are dropped.
loopStart(W) ==
    LET Alive(r) == RippleAlive(r.age, W.b.size)
    IN  [W EXCEPT !.b.needsFrame = FALSE, !.b.ripples = SelectSeq(W.b.ripples, Alive)]

\* The end of the loop callback.
loopEnd(W) ==
    IF W.b.ripples # <<>> \/ W.b.dirty \/ W.b.layoutDirty \/ W.b.kTransition # NoKTransition
    THEN [W EXCEPT !.b.needsFrame = TRUE, !.b.rafId = TRUE, !.q = AddLoopRaf(W.q)]
    ELSE W

----------------------------------------------------------------------------
\* main.ts, immediate-render build.

computeBallPositions(P) ==
    IF P.transition # NoTransition /\ P.transition.elapsed >= P.transition.durationMs
    THEN [P EXCEPT !.transition = NoTransition]
    ELSE P

\* A call of the page on its ParticleBlocks object, in the specifications that
\* have one: the object and the refresh callbacks as the call leaves them.
OnBlocks(P, W) == [P EXCEPT !.b = W.b, !.rafNext = W.q, !.drawn = W.drawn]

WorldOf(P) == [b |-> P.b, q |-> P.rafNext, drawn |-> P.drawn]

\* particles.set({ width, height, k: state.k, ..., valueA, valueB }) in render()
particlesSet(P) ==
    IF P.b = NoBlocks THEN P
    ELSE Only({OnBlocks(P, W) :
                  W \in {set(WorldOf(P), [k |-> P.state.k, valueA |-> P.state.valueA,
                                          valueB |-> P.state.valueB,
                                          size |-> P.b.size])}})

\* particles.addRipple(x, y) in the pointer handlers, at layout unit u on the
\* axis
particlesAddRipple(P, u) ==
    IF P.b = NoBlocks THEN P
    ELSE Only({OnBlocks(P, W) :
                  W \in {addRipple(WorldOf(P), (u * P.b.size[1]) \div UnitsAcross,
                                   P.b.size[2] \div 2)}})

render(P) ==
    LET eng == IF P.engine = NoEngine \/ P.engine.k # P.state.k
               THEN createLadderEngine(P.state.k) ELSE P.engine
        max == eng.maxAbsValue
        a == clamp(P.state.valueA, DecNeg(max), max)
        b == IF P.state.symmetric THEN DecNeg(a)
             ELSE clamp(P.state.valueB, DecNeg(max), max)
        P1 == [P EXCEPT !.engine = eng, !.state.valueA = a, !.state.valueB = b]
    IN  Only({IF P2.transition # NoTransition
              THEN [P2 EXCEPT !.rafNext = AddRenderRaf(P2.rafNext)]
              ELSE P2 :
                 P2 \in {particlesSet(C) : C \in {computeBallPositions(P1)}}})

\* A step that keeps a transition still in progress instead of replacing it.
StepValuesKeep(P, nextK) ==
    LET toMax == createLadderEngine(nextK).maxAbsValue
        toA == clamp(P.state.valueA, DecNeg(toMax), toMax)
        toB == IF P.state.symmetric THEN DecNeg(toA)
               ELSE clamp(P.state.valueB, DecNeg(toMax), toMax)
    IN  [P EXCEPT !.transition = IF P.transition # NoTransition THEN P.transition
                                 ELSE [fromK |-> P.state.k, toK |-> nextK,
                                       elapsed |-> 0, durationMs |-> TransitionMs],
                  !.state.k = nextK, !.state.valueA = toA, !.state.valueB = toB]

\* A step that leaves the values to the next render.
StepValuesUnclamped(P, nextK) ==
    [P EXCEPT !.transition = [fromK |-> P.state.k, toK |-> nextK,
                              elapsed |-> 0, durationMs |-> TransitionMs],
              !.state.k = nextK]

\* The values a step to nextK leaves, and the Transition it creates.
StepValues(P, nextK) ==
    LET toMax == createLadderEngine(nextK).maxAbsValue
        toA == clamp(P.state.valueA, DecNeg(toMax), toMax)
        toB == IF P.state.symmetric THEN DecNeg(toA)
               ELSE clamp(P.state.valueB, DecNeg(toMax), toMax)
    IN  [P EXCEPT !.transition = [fromK |-> P.state.k, toK |-> nextK,
                                  elapsed |-> 0, durationMs |-> TransitionMs],
                  !.state.k = nextK, !.state.valueA = toA, !.state.valueB = toB]

\* The page after the step callback.  The page the callback leaves for its final
\* render() is bound once, as a value.
StepCallback(P, nextK) ==
    Only({render(S) : S \in {StepValues(P, nextK)}})

----------------------------------------------------------------------------
\* main.ts, deferred-render build.

requestRender(P) ==
    IF P.renderScheduled THEN [P EXCEPT !.renderNeeded = TRUE]
    ELSE [P EXCEPT !.renderNeeded = TRUE, !.renderScheduled = TRUE,
                   !.rafNext = Append(P.rafNext, "requestRender")]

renderDeferred(P) ==
    LET eng == IF P.engine = NoEngine \/ P.engine.k # P.state.k
               THEN createLadderEngine(P.state.k) ELSE P.engine
        max == eng.maxAbsValue
        a == clamp(P.state.valueA, DecNeg(max), max)
        b == IF P.state.symmetric THEN DecNeg(a)
             ELSE clamp(P.state.valueB, DecNeg(max), max)
        P1 == [P EXCEPT !.engine = eng, !.state.valueA = a, !.state.valueB = b]
    IN  Only({IF P2.transition # NoTransition THEN requestRender(P2) ELSE P2 :
                 P2 \in {particlesSet(C) : C \in {computeBallPositions(P1)}}})

StepCallbackDeferred(P, nextK) ==
    Only({requestRender(S) : S \in {StepValues(P, nextK)}})

----------------------------------------------------------------------------
\* DiscreteStepper.

setStepMs(ms) == IntMax(0, ms)

\* Math.sign(this.targetK - this.currentK), and two slips of it.
stepDirJump(target, current) == target - current

stepDirStuck(target, current) == IF target > current THEN 1 ELSE 0

stepDir(target, current) == Sign(target - current)

\* requestTo(t), called with q the refresh callbacks registered so far.
\* A requestTo that restarts the step timer when the stepper is stepping already.
requestToRestart(t, q) ==
    /\ targetK' = t
    /\ currentK' = currentK
    /\ stepElapsed' = 0
    /\ IF running
       THEN /\ UNCHANGED <<running, rafId>>
            /\ rafNext' = q
            /\ reqsSinceIdle' = 2
            /\ announced' = <<>>
            /\ startK' = startK
       ELSE /\ running' = TRUE
            /\ rafId' = TRUE
            /\ rafNext' = Append(q, "tick")
            /\ reqsSinceIdle' = 1
            /\ announced' = <<>>
            /\ startK' = currentK
    /\ UNCHANGED <<stepParity, reported>>

requestTo(t, q) ==
    /\ targetK' = t
    /\ currentK' = currentK
    /\ IF running
       THEN /\ UNCHANGED <<running, rafId, stepElapsed>>
            /\ rafNext' = q
            /\ reqsSinceIdle' = 2
            /\ announced' = <<>>
            /\ startK' = startK
       ELSE /\ running' = TRUE
            /\ stepElapsed' = 0
            /\ rafId' = TRUE
            /\ rafNext' = Append(q, "tick")
            /\ reqsSinceIdle' = 1
            /\ announced' = <<>>
            /\ startK' = currentK
    /\ UNCHANGED <<stepParity, reported>>

\* A tick that steps whatever time has passed.
stepDueAlways(elapsed, ms) == TRUE

\* t - this.lastStepAt >= this.stepMs
stepDue(elapsed, ms) == elapsed >= ms

\* this.onStep(this.currentK): the callback the page gave the constructor.
onStep(P, nextK) ==
    IF build = "immediate" THEN StepCallback(P, nextK) ELSE StepCallbackDeferred(P, nextK)

\* One run of the tick callback.
tick ==
    /\ rafNow # <<>> /\ Head(rafNow) = "tick"
    /\ rafNow' = Tail(rafNow)
    /\ LET dir == stepDir(targetK, currentK)
       IN  IF ~running
           THEN UNCHANGED <<stepperVars, pageVars, rafNext, histVars, blocks, drawn>>
           ELSE IF dir = 0
           THEN /\ running' = FALSE
                /\ rafId' = FALSE
                /\ UNCHANGED <<currentK, targetK, stepElapsed, stepMs, pageVars,
                               rafNext, histVars, blocks, drawn>>
           ELSE IF stepDue(stepElapsed, stepMs)
           THEN \E P \in {onStep(Page, currentK + dir)} :
                    /\ currentK' = currentK + dir
                    /\ stepElapsed' = 0
                    /\ Commit([P EXCEPT !.rafNext = Append(P.rafNext, "tick")])
                    /\ stepParity' = ~stepParity
                    /\ reported' = currentK + dir
                    /\ announced' = IF reqsSinceIdle = 1
                                    THEN Append(announced, currentK + dir)
                                    ELSE announced
                    /\ UNCHANGED <<running, rafId, targetK, stepMs, build,
                                   startK, reqsSinceIdle, requested, probe>>
           ELSE /\ rafNext' = Append(rafNext, "tick")
                /\ UNCHANGED <<stepperVars, pageVars, histVars, blocks, drawn>>
    /\ UNCHANGED <<reqLeft, passes>>

----------------------------------------------------------------------------
\* The page's handlers.  An input event arrives between two display frames.

Between == rafNow = <<>>

\* A clamp that has lost its upper bound.
clampLevelOpen(x) == IntMax(x, K_MIN)

\* clamp(Math.round(targetK), K_MIN, K_MAX), for a whole targetK
clampLevel(x) == clampInt(x, K_MIN, K_MAX)

setTargetK(x) ==
    LET clamped == clampLevel(x)
    IN  /\ state' = [state EXCEPT !.targetK = clamped]
        /\ requested' = x
        /\ UNCHANGED probe
        /\ stepMs' = setStepMs(IF state.stepMode THEN StepMsOn ELSE StepMsOff)
        /\ requestTo(clamped, rafNext)
        /\ UNCHANGED <<build, engine, transition, renderScheduled, renderNeeded,
                       rafNow, blockVars>>

\* A bump that counts from the pending target.
bumpKFromTarget(delta) == setTargetK(state.targetK + delta)

bumpK(delta) == setTargetK(state.k + delta)

\* The target-level input box.
SetTargetK(x) == Between /\ setTargetK(x) /\ UNCHANGED reqLeft

\* The zoom buttons and the wheel.
BumpK(delta) == Between /\ bumpK(delta) /\ UNCHANGED reqLeft

ToggleStepMode(on) ==
    /\ Between
    /\ state' = [state EXCEPT !.stepMode = on]
    /\ stepMs' = setStepMs(IF on THEN StepMsOn ELSE StepMsOff)
    /\ UNCHANGED <<running, rafId, currentK, targetK, stepElapsed, build, engine,
                   transition, renderScheduled, renderNeeded, rafNext, rafNow,
                   histVars, reqLeft, blockVars>>

\* A drag that moves marker B alone, also in symmetric mode.
MarkerValuesNoMirror(P, u, chosen) ==
    LET max == P.engine.maxAbsValue
        value == valueAt(P.engine, u)
    IN  IF chosen = "b"
        THEN [P EXCEPT !.state.valueB = clamp(value, DecNeg(max), max)]
        ELSE [P EXCEPT !.state.valueA = clamp(value, DecNeg(max), max),
                       !.state.valueB = IF P.state.symmetric
                                        THEN DecNeg(clamp(value, DecNeg(max), max))
                                        ELSE P.state.valueB]

\* The values a tap or drag at layout unit u leaves, chosen the marker it moves.
MarkerValues(P, u, chosen) ==
    LET max == P.engine.maxAbsValue
        value == valueAt(P.engine, u)
        a == IF chosen = "b"
             THEN IF P.state.symmetric THEN clamp(DecNeg(value), DecNeg(max), max)
                  ELSE P.state.valueA
             ELSE clamp(value, DecNeg(max), max)
        b0 == IF chosen = "b" /\ ~P.state.symmetric
              THEN clamp(value, DecNeg(max), max) ELSE P.state.valueB
        b == IF P.state.symmetric THEN DecNeg(a) ELSE b0
    IN  [P EXCEPT !.state.valueA = a, !.state.valueB = b]

PageOnly == UNCHANGED <<stepperVars, build, rafNow, histVars, passes>>

\* The pointer event is a tap (pointerdown): with a block field, it emits a
\* ripple.
Emits == {blocks # NoBlocks}

applyValueAtClientPoint(u, chosen) ==
    /\ Between /\ build = "immediate"
    /\ engine # NoEngine
    /\ \E emit \in Emits, M \in {MarkerValues(Page, u, chosen)} :
           Commit(render(IF emit THEN particlesAddRipple(M, u) ELSE M))
    /\ PageOnly

applyValueAtClientPointDeferred(u, chosen) ==
    /\ Between /\ build = "deferred"
    /\ engine # NoEngine
    /\ \E emit \in Emits, M \in {MarkerValues(Page, u, chosen)} :
           Commit(requestRender(IF emit THEN particlesAddRipple(M, u) ELSE M))
    /\ PageOnly

ResetZero ==
    /\ Between /\ build = "immediate"
    /\ Commit(render([Page EXCEPT !.state.valueA = Zero, !.state.valueB = Zero]))
    /\ PageOnly

ResetZeroDeferred ==
    /\ Between /\ build = "deferred"
    /\ Commit(requestRender([Page EXCEPT !.state.valueA = Zero, !.state.valueB = Zero]))
    /\ PageOnly

SymmetricValues(P, on) ==
    [P EXCEPT !.state.symmetric = on,
              !.state.valueB = IF on THEN DecNeg(P.state.valueA) ELSE P.state.valueB]

setSymmetricMode(on) ==
    /\ Between /\ build = "immediate"
    /\ Commit(render(SymmetricValues(Page, on)))
    /\ PageOnly

setSymmetricModeDeferred(on) ==
    /\ Between /\ build = "deferred"
    /\ Commit(requestRender(SymmetricValues(Page, on)))
    /\ PageOnly

\* requestAnimationFrame(render), registered by a render() during a transition.
RenderFrame ==
    /\ rafNow # <<>> /\ Head(rafNow) = "render"
    /\ rafNow' = Tail(rafNow)
    /\ Commit(render(Page))
    /\ UNCHANGED <<stepperVars, build, histVars, reqLeft, passes>>

\* The callback requestRender() registered.
RenderRequested ==
    /\ rafNow # <<>> /\ Head(rafNow) = "requestRender"
    /\ rafNow' = Tail(rafNow)
    /\ LET P0 == [Page EXCEPT !.renderScheduled = FALSE]
       IN  IF ~P0.renderNeeded THEN Commit(P0)
           ELSE Commit(renderDeferred([P0 EXCEPT !.renderNeeded = FALSE]))
    /\ UNCHANGED <<stepperVars, build, histVars, reqLeft, passes>>

\* elapsed time, saturated at cap
Elapse(e, dt, cap) == IntMin(e + dt, cap)

\* performance.now() dt ms on, as ParticleBlocks reads it
aged(b, dt) ==
    [b EXCEPT
        !.kTransition = IF @ = NoKTransition THEN @
                        ELSE [@ EXCEPT !.elapsed = Elapse(@, dt, kAnimDurMs)],
        !.ripples = [i \in 1..Len(@) |->
                        [@[i] EXCEPT !.age = Elapse(@, dt, RippleAgeCap)]]]

\* The display starts a frame dt ms after the last one: the callbacks registered
\* so far are the ones it runs.
BeginFrame(dt) ==
    /\ Between
    /\ rafNow' = rafNext
    /\ rafNext' = <<>>
    /\ stepElapsed' = IF running THEN Elapse(stepElapsed, dt, StepMsOn) ELSE stepElapsed
    /\ transition' = IF transition = NoTransition THEN transition
                     ELSE [transition EXCEPT !.elapsed = Elapse(@, dt, TransitionMs)]
    /\ passes' = 0
    /\ blocks' = IF blocks = NoBlocks THEN blocks ELSE aged(blocks, dt)
    /\ UNCHANGED <<running, rafId, currentK, targetK, stepMs, build, state, engine,
                   renderScheduled, renderNeeded, histVars, reqLeft, drawn>>

----------------------------------------------------------------------------
\* The page after its module has loaded: main.ts ends with render(), the
\* deferred build with requestRender().

InitState ==
    [k |-> 0, targetK |-> 0, stepMode |-> TRUE, symmetric |-> TRUE,
     valueA |-> Zero, valueB |-> Zero]

InitPageVars ==
    /\ running = FALSE /\ rafId = FALSE
    /\ currentK = 0 /\ targetK = 0
    /\ stepElapsed = 0 /\ stepMs = DefaultStepMs
    /\ build \in {"immediate", "deferred"}
    /\ state \in {[InitState EXCEPT !.stepMode = on] : on \in BOOLEAN}
    /\ engine = IF build = "immediate" THEN createLadderEngine(0) ELSE NoEngine
    /\ transition = NoTransition
    /\ renderScheduled = (build = "deferred")
    /\ renderNeeded = (build = "deferred")
    /\ stepParity = FALSE /\ reported = 0
    /\ startK = 0 /\ reqsSinceIdle = 0 /\ announced = <<>>
    /\ requested = 0
    /\ probe = NoProbe

InitPage ==
    /\ InitPageVars
    /\ rafNext = IF build = "deferred" THEN <<"requestRender">> ELSE <<>>
    /\ rafNow = <<>>
    /\ blocks = NoBlocks /\ passes = 0 /\ drawn = NoDraw

Init == InitPage /\ reqLeft = 0

DragUnits == {0, 17, 20}

Frames ==
    \/ \E dt \in FrameDts : BeginFrame(dt)
    \/ tick
    \/ RenderFrame
    \/ RenderRequested

\* The pointer and button handlers that move the markers.
MarkerEvents ==
    \/ \E u \in DragUnits, c \in {"a", "b"} : applyValueAtClientPoint(u, c)
    \/ \E u \in DragUnits, c \in {"a", "b"} : applyValueAtClientPointDeferred(u, c)
    \/ ResetZero
    \/ ResetZeroDeferred
    \/ \E on \in BOOLEAN : setSymmetricMode(on)
    \/ \E on \in BOOLEAN : setSymmetricModeDeferred(on)

\* The page: levels up to MaxLevel, both markers, both builds.
Next ==
    \/ Frames
    \/ \E x \in 0..MaxLevel : SetTargetK(x)
    \/ \E d \in {-1, 1} : state.k + d <= MaxLevel /\ BumpK(d)
    \/ \E on \in BOOLEAN : ToggleStepMode(on)
    \/ MarkerEvents /\ UNCHANGED reqLeft

Spec == Init /\ [][Next]_vars

\* The stepper over every level: the markers stay at 0.
NextStepper ==
    \/ Frames
    \/ \E x \in (K_MIN - 1)..(K_MAX + 1) : SetTargetK(x)
    \/ \E d \in {-1, 1} : BumpK(d)
    \/ \E on \in BOOLEAN : ToggleStepMode(on)

SpecStepper == Init /\ [][NextStepper]_vars

\* The stepper when requests stop: MaxRequests of them, and the display keeps
\* firing frames.
LiveTargets == {K_MIN - 1, K_MAX + 1}

LiveSetTargetK(x) ==
    /\ Between /\ reqLeft > 0
    /\ reqLeft' = reqLeft - 1
    /\ setTargetK(x)

LiveBumpK(delta) ==
    /\ Between /\ reqLeft > 0
    /\ reqLeft' = reqLeft - 1
    /\ bumpK(delta)

InitLive == InitPage /\ reqLeft = MaxRequests

NextStepperLive ==
    \/ Frames
    \/ \E x \in LiveTargets : LiveSetTargetK(x)
    \/ \E d \in {-1, 1} : LiveBumpK(d)
    \/ \E on \in BOOLEAN : ToggleStepMode(on)

SpecStepperLive == InitLive /\ [][NextStepperLive]_vars /\ WF_vars(Frames)

BlocksOnly == UNCHANGED <<stepperVars, pageVars, histVars, rafNow, passes>>

\* The callback requestFrame registered.
Loop ==
    /\ rafNow # <<>> /\ Head(rafNow) = "loop"
    /\ rafNow' = Tail(rafNow)
    /\ \E W0 \in {[World EXCEPT !.b.rafId = FALSE]} :
           IF W0.b.destroyed \/ ~W0.b.needsFrame
           THEN CommitBlocks(W0) /\ UNCHANGED passes
           ELSE \E crossed \in (IF W0.b.ripples # <<>> /\ W0.b.mode = "webgl"
                                   /\ W0.b.params # NoParams
                                THEN BOOLEAN ELSE {FALSE}) :
                \E W1 \in {loopStart(W0)} :
                \E W2 \in {renderFrame(W1, crossed)} :
                \E W3 \in {loopEnd(W2)} :
                    /\ CommitBlocks(W3)
                    /\ passes' = passes + 1
    /\ UNCHANGED <<stepperVars, pageVars, histVars, reqLeft>>

\* requestAnimationFrame(() => requestAnimationFrame(() => checkBlackFrameOnce()))
Probe ==
    /\ rafNow # <<>> /\ Head(rafNow) = "probe"
    /\ rafNow' = Tail(rafNow)
    /\ rafNext' = Append(rafNext, "checkBlackFrameOnce")
    /\ UNCHANGED <<stepperVars, pageVars, histVars, reqLeft, blockVars>>

\* checkBlackFrameOnce: the sampled pixel is black (or the sampling throws) or
\* not; a fallback measures the host, sz.
checkBlackFrameOnce(black, sz) ==
    /\ rafNow # <<>> /\ Head(rafNow) = "checkBlackFrameOnce"
    /\ rafNow' = Tail(rafNow)
    /\ IF blocks.mode = "webgl" /\ black
       THEN CommitBlocks(requestFrame(enable2DFallback(World, sz)))
       ELSE UNCHANGED <<blocks, rafNext, drawn>>
    /\ UNCHANGED <<stepperVars, pageVars, histVars, reqLeft, passes>>

\* A display frame begins dt ms after the last one.
BeginBlocksFrame(dt) ==
    /\ Between
    /\ rafNow' = rafNext
    /\ rafNext' = <<>>
    /\ passes' = 0
    /\ blocks' = aged(blocks, dt)
    /\ UNCHANGED <<stepperVars, pageVars, histVars, reqLeft, drawn>>

BlocksFrames ==
    \/ \E dt \in FrameDts : BeginBlocksFrame(dt)
    \/ Loop
    \/ Probe
    \/ \E black \in BOOLEAN, sz \in Sizes : checkBlackFrameOnce(black, sz)

\* The events of the page and of the browser, between two display frames.
Set(p) ==
    /\ Between
    /\ CommitBlocks(set(World, p))
    /\ BlocksOnly

AddRipple(x, y) ==
    /\ Between
    /\ CommitBlocks(addRipple(World, x, y))
    /\ BlocksOnly

Resize(sz) ==
    /\ Between
    /\ CommitBlocks(resize(World, sz))
    /\ BlocksOnly

\* webglcontextlost: the browser fires it once for the context the constructor
\* created, whatever the mode is by then.
ContextLost(sz) ==
    /\ Between
    /\ blocks.context = "live"
    /\ \E W \in {[World EXCEPT !.b.context = "lost"]} :
           CommitBlocks(enable2DFallback(W, sz))
    /\ BlocksOnly

\* force2D
Force2D(sz) ==
    /\ Between
    /\ blocks.mode # "2d"
    /\ \E W \in {World} : CommitBlocks(enable2DFallback(W, sz))
    /\ BlocksOnly

\* The object after its constructor: with a WebGL context, or in the 2D fallback.
\* An InstancedMesh starts with its count at its capacity.
NewBlocks(mode, lowEnd, sz) ==
    [mode |-> mode, lowEnd |-> lowEnd, size |-> sz,
     params |-> NoParams, kTransition |-> NoKTransition, activeField |-> 0,
     fields |-> [i \in {0, 1} |->
                    [visible |-> (i = 0), scaleLog |-> 0,
                     negCount |-> MaxBlocks, posCount |-> MaxBlocks]],
     rafId |-> TRUE, needsFrame |-> TRUE, layoutDirty |-> TRUE,
     ripples |-> <<>>, dirty |-> FALSE, checkedBlackFrame |-> FALSE,
     destroyed |-> FALSE,
     context |-> IF mode = "webgl" THEN "live" ELSE "none"]

\* The page part of the frame-loop specifications: loaded, and left alone.
PageLoaded ==
    /\ InitPageVars
    /\ build = "immediate" /\ state.stepMode
    /\ rafNow = <<>>
    /\ passes = 0 /\ drawn = NoDraw

\* The levels and marker values the frame-loop specification draws.
FrameLevels == {4, 5}

FrameValues == {<<Zero, Zero>>, <<Norm(-55, 2), Norm(55, 2)>>}

FrameParams ==
    {[k |-> k, valueA |-> v[1], valueB |-> v[2], size |-> <<3, 4>>] :
        k \in FrameLevels, v \in FrameValues}

\* The object once the page has loaded: constructed, and given its first
\* parameters by the render() that ends main.ts.
Loaded(mode, lowEnd, p) ==
    set([b |-> NewBlocks(mode, lowEnd, p.size), q |-> <<"loop">>, drawn |-> NoDraw], p)

\* The frame loop when the events stop: MaxEvents of them (requests of the
\* page, force2D, the loss of the WebGL context) after the page has loaded at
\* the lower of the two levels, and the display keeps firing frames.
InitFrames ==
    /\ PageLoaded
    /\ reqLeft = MaxEvents
    /\ \E m \in {"webgl", "2d"}, le \in BOOLEAN, p \in {q \in FrameParams : q.k = 4} :
           \E W \in {Loaded(m, le, p)} : blocks = W.b /\ rafNext = W.q

NextFrames ==
    \/ BlocksFrames
    \/ /\ reqLeft > 0
       /\ reqLeft' = reqLeft - 1
       /\ \/ \E p \in FrameParams : Set(p)
          \/ /\ Len(blocks.ripples) < 2 * MaxRipples
             /\ AddRipple(1, 1)
          \/ \E sz \in Sizes : Resize(sz)
          \/ \E sz \in Sizes : Force2D(sz)
          \/ \E sz \in Sizes : ContextLost(sz)

SpecFrames == InitFrames /\ [][NextFrames]_vars /\ WF_vars(BlocksFrames)

----------------------------------------------------------------------------
\* The page together with its block field: render() hands the level and the
\* marker values to particles.set, the pointer handlers call
\* particles.addRipple, and the display runs the callbacks of both.

\* main.ts builds the object and ends with render(); the deferred build ends
\* with particles.resize() and requestRender().
LoadedSize == <<3, 4>>

InitEndToEnd ==
    /\ InitPageVars
    /\ rafNow = <<>> /\ passes = 0
    /\ reqLeft = MaxEvents
    /\ \E m \in {"webgl", "2d"}, le \in BOOLEAN :
       \E W \in {IF build = "immediate"
                 THEN Loaded(m, le, [k |-> 0, valueA |-> Zero, valueB |-> Zero,
                                     size |-> LoadedSize])
                 ELSE resize([b |-> NewBlocks(m, le, LoadedSize), q |-> <<"loop">>,
                              drawn |-> NoDraw], LoadedSize)} :
           /\ blocks = W.b
           /\ drawn = W.drawn
           /\ rafNext = IF build = "immediate" THEN W.q
                        ELSE Append(W.q, "requestRender")

FramesEndToEnd ==
    \/ BeginFrame(FrameMs)
    \/ tick
    \/ RenderFrame
    \/ RenderRequested
    \/ Loop
    \/ Probe
    \/ \E black \in BOOLEAN : checkBlackFrameOnce(black, blocks.size)

\* MaxEvents taps and level bumps, and the display keeps firing frames.
NextEndToEnd ==
    \/ FramesEndToEnd
    \/ /\ reqLeft > 0
       /\ reqLeft' = reqLeft - 1
       /\ \/ \E u \in DragUnits : applyValueAtClientPoint(u, "a")
          \/ \E u \in DragUnits : applyValueAtClientPointDeferred(u, "a")
          \/ \E d \in {-1, 1} : Between /\ state.k + d <= MaxLevel /\ bumpK(d)

SpecEndToEnd == InitEndToEnd /\ [][NextEndToEnd]_vars /\ WF_vars(FramesEndToEnd)

\* The ripple list under taps: MaxTaps of them at one point, at any pace, while
\* the display keeps firing frames, one every 3 * FrameMs.
RippleTaps == {<<1, 1>>}

RippleFrames ==
    \/ BeginBlocksFrame(3 * FrameMs)
    \/ Loop
    \/ Probe
    \/ \E black \in BOOLEAN, sz \in Sizes : checkBlackFrameOnce(black, sz)

InitRipples ==
    /\ PageLoaded
    /\ reqLeft = MaxTaps
    /\ \E m \in {"webgl", "2d"}, le \in BOOLEAN :
           \E W \in {Loaded(m, le, [k |-> 4, valueA |-> Zero, valueB |-> Zero,
                                    size |-> <<3, 4>>])} :
               blocks = W.b /\ rafNext = W.q

NextRipples ==
    \/ RippleFrames
    \/ /\ reqLeft > 0
       /\ reqLeft' = reqLeft - 1
       /\ \E pt \in RippleTaps : AddRipple(pt[1], pt[2])

SpecRipples == InitRipples /\ [][NextRipples]_vars /\ WF_vars(RippleFrames)

\* The block counts as a function of the level and the marker values: the object
\* after its first set(p), for every level and marker values within 10^k.
CountDigits == {0, 1, 55, 1234}

CountExps(k) == {e \in {-1, 0, k - 6, k - 4, k - 2, k} : e >= -1}

CountValues(k) ==
    {v \in {Norm(s * m, e) : s \in {-1, 1}, m \in CountDigits, e \in CountExps(k)} :
        DecLeq(DecAbs(v), Pow10(k))}

CountParams ==
    UNION {{[k |-> k, valueA |-> a, valueB |-> b, size |-> <<3, 4>>] :
               a \in CountValues(k), b \in CountValues(k)} : k \in K_MIN..K_MAX}

InitCounts ==
    /\ PageLoaded
    /\ reqLeft = 0
    /\ \E m \in {"webgl", "2d"}, le \in BOOLEAN, p \in CountParams :
           \E W \in {Loaded(m, le, p)} : blocks = W.b /\ rafNext = W.q

SpecCounts == InitCounts /\ [][BlocksFrames]_vars

\* The mapping as a function of the level and the width: a mapping is built for
\* any level and width asked for, and then asked for the value under a pixel
\* offset or for the position of a value; each answer is carried back through
\* the opposite direction.
ProbeLevels == (K_MIN - 2)..K_MAX

\* Widths in tenths of a pixel: 0.5, 1, 7.5, 20.5 and 300 pixels.
ProbeWidths == {5, 10, 75, 205, 3000}

\* Pixel offsets across a viewport w wide, and one beyond each edge.
ProbeOffsets(w) == {QRat(j * w, 4) : j \in -1..5} \cup {QRat(1, 3), QRat(w, 3)}

\* Values across the range of level k, and one beyond each end.
ProbeValues(k) ==
    {Norm(s * m, e) : s \in {-1, 1}, m \in {0, 1, 5, 1234}, e \in {k - 4, k - 1, k}}
        \cup {Norm(2, k), Norm(-2, k)}

BuildMapping(k, width10) ==
    /\ probe' = [op |-> "createLadderEngine", k |-> k, width10 |-> width10,
                 outcome |-> "returned", eng |-> createLadderEngineAt(k, width10)]
    /\ UNCHANGED <<stepperVars, pageVars, rafNext, rafNow, reqLeft, blockVars>>
    /\ UNCHANGED <<stepParity, reported, startK, reqsSinceIdle, announced, requested>>

ValueAtOffset(x) ==
    /\ probe.op # "none"
    /\ \E v \in {numberLineValueAt(probe.eng.numberLine, x)} :
           probe' = [op |-> "valueAt", k |-> probe.k, width10 |-> probe.width10,
                     outcome |-> "returned", eng |-> probe.eng,
                     x |-> x, value |-> v, back |-> valueToXWithEngine(v, probe.eng)]
    /\ UNCHANGED <<stepperVars, pageVars, rafNext, rafNow, reqLeft, blockVars>>
    /\ UNCHANGED <<stepParity, reported, startK, reqsSinceIdle, announced, requested>>

ValueToX(v) ==
    /\ probe.op # "none"
    /\ \E x \in {valueToXWithEngine(QDec(v), probe.eng)} :
           probe' = [op |-> "valueToX", k |-> probe.k, width10 |-> probe.width10,
                     outcome |-> "returned", eng |-> probe.eng,
                     value |-> QDec(v), x |-> x,
                     back |-> numberLineValueAt(probe.eng.numberLine, x)]
    /\ UNCHANGED <<stepperVars, pageVars, rafNext, rafNow, reqLeft, blockVars>>
    /\ UNCHANGED <<stepParity, reported, startK, reqsSinceIdle, announced, requested>>

InitMapping ==
    /\ PageLoaded
    /\ reqLeft = 0
    /\ rafNext = <<>>
    /\ blocks = NoBlocks

NextMapping ==
    \/ \E k \in ProbeLevels, width10 \in ProbeWidths : BuildMapping(k, width10)
    \/ /\ probe.op # "none"
       /\ \E x \in ProbeOffsets(probe.eng.width) : ValueAtOffset(x)
    \/ /\ probe.op # "none"
       /\ \E v \in ProbeValues(probe.k) : ValueToX(v)

SpecMapping == InitMapping /\ [][NextMapping]_vars

\* The scale a ripple gives a block, as a function of the wave value at the
\* block and of the block's size at rest.

\* An active block's scale without the clamp.
deformActiveUnclamped(w, s) == QMul(s, QAdd(QRat(1, 1), QDec(w)))

\* b.s * (1 + clamp(w, -0.70, 1.05)): updateRippleMatrices, active blocks
deformActive(w, s) ==
    QMul(s, QAdd(QRat(1, 1), QDec(clamp(w, Norm(-70, -2), Norm(105, -2)))))

\* base.s * (1 + clamp(w, -0.40, 0.70)): deformBaseLocally, the base grid
deformBase(w, s) ==
    QMul(s, QAdd(QRat(1, 1), QDec(clamp(w, Norm(-40, -2), Norm(70, -2)))))

\* Wave values from -3 to 3 in steps of 0.05: waveAt sums one term of size at
\* most 1 for each ripple.
WaveValues == {Norm(5 * n, -2) : n \in -60..60}

\* Sizes at rest: Math.max(1.6, cell * 0.84)
RestSizes == {QRat(16, 10), QRat(21, 10), QRat(42, 1)}

Deform(kind, w, s) ==
    /\ probe' = [op |-> "deform", kind |-> kind, w |-> w, base |-> s,
                 s |-> IF kind = "active" THEN deformActive(w, s) ELSE deformBase(w, s)]
    /\ UNCHANGED <<stepperVars, pageVars, rafNext, rafNow, reqLeft, blockVars>>
    /\ UNCHANGED <<stepParity, reported, startK, reqsSinceIdle, announced, requested>>

NextDeform ==
    \E kind \in {"active", "base"}, w \in WaveValues, s \in RestSizes : Deform(kind, w, s)

SpecDeform == InitMapping /\ [][NextDeform]_vars

----------------------------------------------------------------------------
\* The dirty record: the blocks a ripple deformed, kept so that they can be
\* put back. Each side has a list (dirtyNeg, dirtyPos, of which the first
\* dirtyNegLen, dirtyPosLen entries count) and a mark per block index
\* (dirtyNegMark, dirtyPosMark). The specification below follows the record
\* alone: of the ripples it keeps how many are alive, of a transition whether
\* one is on, and the blocks a pass deforms are any short run of indices.

\* Block indices per side, standing for the indices 0..9999 of the grid.
MaxIndex == 1

BlockIndices == 0..MaxIndex

Range(s) == {s[i] : i \in 1..Len(s)}

\* An append that does not look at the mark.
markDirtyUnguarded(rec, idx) ==
    [list |-> Append(rec.list, idx), mark |-> rec.mark \cup {idx}]

\* if (mark[idx] === 0) { mark[idx] = 1; list[len++] = idx; }
markDirty(rec, idx) ==
    IF idx \in rec.mark THEN rec
    ELSE [list |-> Append(rec.list, idx), mark |-> rec.mark \cup {idx}]

\* The appends of one pass, in the order the loops make them.
RECURSIVE markEach(_, _)
markEach(rec, hits) ==
    IF hits = <<>> THEN rec ELSE markEach(markDirty(rec, Head(hits)), Tail(hits))

\* The indices the wave band deforms in one pass on one side, in order; two
\* ripples, or the active and the base update, may hit the same index twice.
Hits == UNION {[1..n -> BlockIndices] : n \in 0..2}

NoDirty == [list |-> <<>>, mark |-> {}]

\* this.dirtyNeg/dirtyNegMark and this.dirtyPos/dirtyPosMark; restored: the
\* indices whose matrices the last pass set back to the scale at rest; pass:
\* the branch of renderFrame the last step ran, "none" if it was no pass.
NewDirtyBlocks ==
    [mode |-> "webgl", ripplesEnabled |-> TRUE, ripples |-> 0, inTransition |-> FALSE,
     dirtyNeg |-> NoDirty, dirtyPos |-> NoDirty,
     restoredNeg |-> {}, restoredPos |-> {}, pass |-> "none"]

DirtyOnly ==
    UNCHANGED <<stepperVars, pageVars, rafNext, rafNow, histVars, reqLeft, passes, drawn>>

\* updateRippleMatrices and deformBaseLocally of one WebGL pass: nothing
\* without a live ripple, otherwise every block they deform is marked.
deformPass(b, hitsNeg, hitsPos) ==
    IF ~(b.ripplesEnabled /\ b.ripples > 0) THEN b
    ELSE [b EXCEPT !.dirtyNeg = markEach(@, hitsNeg),
                   !.dirtyPos = markEach(@, hitsPos)]

\* restoreBaseIfNeeded
restoreBaseIfNeeded(b) ==
    IF b.ripplesEnabled /\ b.ripples > 0 THEN b
    ELSE IF b.dirtyNeg.list = <<>> /\ b.dirtyPos.list = <<>> THEN b
    ELSE [b EXCEPT !.restoredNeg = Range(b.dirtyNeg.list),
                   !.restoredPos = Range(b.dirtyPos.list),
                   !.dirtyNeg = NoDirty,
                   !.dirtyPos = NoDirty]

\* The loop callback: the ripples past their life are dropped (left of them
\* remain), then renderFrame: the 2D pass leaves the record alone, a
\* transition pass deforms and may be the transition's last (done), a stable
\* pass deforms and then restores.
DirtyLoop(left, done, hitsNeg, hitsPos) ==
    /\ left <= blocks.ripples
    /\ \E b \in {[blocks EXCEPT !.ripples = left, !.restoredNeg = {}, !.restoredPos = {}]} :
           blocks' = IF b.mode # "webgl" THEN [b EXCEPT !.pass = "2d"]
                     ELSE IF b.inTransition
                          THEN [deformPass(b, hitsNeg, hitsPos)
                                    EXCEPT !.inTransition = ~done, !.pass = "transition"]
                          ELSE [restoreBaseIfNeeded(deformPass(b, hitsNeg, hitsPos))
                                    EXCEPT !.pass = "stable"]
    /\ DirtyOnly

\* addRipple: nothing while ripples are disabled; the tap and its mirror
\* image, the oldest dropped beyond the cap.
DirtyAddRipple ==
    /\ blocks' = IF ~blocks.ripplesEnabled THEN [blocks EXCEPT !.pass = "none"]
                 ELSE [blocks EXCEPT !.ripples = IF @ + 2 > MaxRipples THEN MaxRipples ELSE @ + 2,
                                     !.pass = "none"]
    /\ DirtyOnly

\* setRipplesEnabled
setRipplesEnabled(enabled) ==
    /\ blocks' = IF enabled THEN [blocks EXCEPT !.ripplesEnabled = TRUE, !.pass = "none"]
                 ELSE [blocks EXCEPT !.ripplesEnabled = FALSE, !.ripples = 0,
                                     !.dirtyNeg = NoDirty, !.dirtyPos = NoDirty,
                                     !.pass = "none"]
    /\ DirtyOnly

\* set() with another level: a transition starts or is replaced.
DirtySetLevel ==
    /\ blocks' = [blocks EXCEPT !.inTransition = TRUE, !.pass = "none"]
    /\ DirtyOnly

\* force2D, and the loss of the WebGL context
DirtyForce2D ==
    /\ blocks.mode = "webgl"
    /\ blocks' = [blocks EXCEPT !.mode = "2d", !.pass = "none"]
    /\ DirtyOnly

InitDirty ==
    /\ PageLoaded
    /\ reqLeft = 0
    /\ rafNext = <<>>
    /\ blocks = NewDirtyBlocks

NextDirty ==
    \/ \E left \in 0..MaxRipples, done \in BOOLEAN, hitsNeg \in Hits, hitsPos \in Hits :
           DirtyLoop(left, done, hitsNeg, hitsPos)
    \/ DirtyAddRipple
    \/ \E enabled \in BOOLEAN : setRipplesEnabled(enabled)
    \/ DirtySetLevel
    \/ DirtyForce2D

SpecDirty == InitDirty /\ [][NextDirty]_vars

----------------------------------------------------------------------------
\* The block layout. rebuildLayout fills negBases and posBases from the
\* object's width and height and from params.midX; the specification below
\* follows the page and the object through changes of the host's size, with
\* the page's render() reduced to its set() call and a render pass to its
\* rebuild.

\* Sizes of the host element, width and height in pixels: wide ones, where the
\* width of a side sets the cell size, with widths that make the cell sizes
\* of a centred layout whole numbers, 20 and 40.
LayoutSizes == {<<4262, 200>>, <<8496, 200>>}

QMax(a, b) == IF QLeq(a, b) THEN b ELSE a

\* Blocks of the grid kept of a side's list: the first, one inside a chunk,
\* the last.
SampleIndices == {0, 1111, 9999}

NoBases == [count |-> 0, at |-> [i \in SampleIndices |-> <<>>]]

\* buildFieldFromAxis: the list it fills, given the list before.
buildFieldFromAxis(into, side, width, height, midX) ==
    LET dim == 100
        chunk == 10
        gaps == dim \div chunk - 1
        gapFrac == QRat(65, 100)
        gh == QMax(QRat(1, 1), QMax(QRat(1, 1), QRat(height, 1)))
        sideW == IF side = "left" THEN midX
                 ELSE QMax(QRat(1, 1), QSub(QRat(width, 1), midX))
        padAxis == QRat(14, 1)
        denom == QAdd(QRat(dim, 1), QMul(QRat(gaps, 1), gapFrac))
        cellH == QDiv(gh, denom)
        cellW == QDiv(QMax(QRat(1, 1), QSub(sideW, padAxis)), denom)
        cell == QMax(QRat(22, 10), QMax(cellH, cellW))
        gapPx == QMul(cell, gapFrac)
        s == QMax(QRat(16, 10), QMul(cell, QRat(84, 100)))
        block(idx) ==
            LET row == idx \div dim
                colFill == idx % dim
                dx == QAdd(padAxis,
                           QAdd(QMul(QRat(2 * colFill + 1, 2), cell),
                                QMul(QRat(colFill \div chunk, 1), gapPx)))
                yDom == QAdd(QMul(QRat(2 * row + 1, 2), cell),
                             QMul(QRat(row \div chunk, 1), gapPx))
                atChunkEdge == colFill % chunk = 0 \/ row % chunk = 0
            IN  [x |-> IF side = "left" THEN QNeg(dx) ELSE dx,
                 y |-> QSub(QSub(QRat(height, 1), yDom), QRat(height, 2)),
                 s |-> IF atChunkEdge THEN QMul(s, QRat(74, 100)) ELSE s]
        \* the pushes stop once the list holds 10000 blocks
        pushed == IF into.count >= MaxBlocks THEN 1 ELSE MaxBlocks - into.count
    IN  [count |-> into.count + pushed,
         at |-> [i \in SampleIndices |->
                    IF i < into.count THEN into.at[i]
                    ELSE IF i < into.count + pushed THEN block(i - into.count)
                    ELSE <<>>]]

rebuildLayout(b) ==
    IF b.params = NoParams
    THEN [b EXCEPT !.layoutDirty = FALSE, !.negBases = NoBases, !.posBases = NoBases]
    ELSE [b EXCEPT !.layoutDirty = FALSE,
                   !.negBases = buildFieldFromAxis(NoBases, "left", b.size[1], b.size[2],
                                                   b.params.midX),
                   !.posBases = buildFieldFromAxis(NoBases, "right", b.size[1], b.size[2],
                                                   b.params.midX)]

NoBuilt == [sz \in LayoutSizes |-> <<>>]

\* The object after its constructor, with the host it measures, its two lists,
\* and as history the lists the last rebuild for each size left.
NewLayoutBlocks(mode, host) ==
    [f \in DOMAIN NewBlocks(mode, FALSE, host) \cup {"host", "negBases", "posBases", "built"} |->
        IF f = "host" THEN host
        ELSE IF f = "negBases" \/ f = "posBases" THEN NoBases
        ELSE IF f = "built" THEN NoBuilt
        ELSE NewBlocks(mode, FALSE, host)[f]]

\* The parameters render() hands to set(): the host's size, the level, and
\* midX: engine.width / 2.
LayoutParams(host, k) ==
    [k |-> k, valueA |-> Zero, valueB |-> Zero, size |-> host, midX |-> QRat(host[1], 2)]

LayoutOnly ==
    UNCHANGED <<stepperVars, build, engine, transition, rafNow, histVars, reqLeft, passes>>

\* requestRender() of the deferred build
LayoutRequestRender(q) ==
    /\ renderNeeded' = TRUE
    /\ renderScheduled' = TRUE
    /\ rafNext' = IF renderScheduled THEN q ELSE Append(q, "requestRender")

\* The ResizeObserver callbacks, the host now measuring sz: render() and then
\* particles.resize() in the immediate build; particles.resize() and then
\* requestRender() in the deferred build.
HostResized(sz) ==
    /\ sz # blocks.host
    /\ \E W0 \in {[World EXCEPT !.b.host = sz]} :
           IF build = "immediate"
           THEN /\ CommitBlocks(resize(set(W0, LayoutParams(sz, state.k)), sz))
                /\ UNCHANGED <<renderScheduled, renderNeeded>>
           ELSE \E W1 \in {resize(W0, sz)} :
                    /\ blocks' = W1.b /\ drawn' = W1.drawn
                    /\ LayoutRequestRender(W1.q)
    /\ UNCHANGED state
    /\ LayoutOnly

\* A step of the level: render() at once, or requestRender().
LayoutStep(k) ==
    /\ k # state.k
    /\ state' = [state EXCEPT !.k = k, !.targetK = k]
    /\ IF build = "immediate"
       THEN /\ CommitBlocks(set(World, LayoutParams(blocks.host, k)))
            /\ UNCHANGED <<renderScheduled, renderNeeded>>
       ELSE /\ LayoutRequestRender(rafNext)
            /\ UNCHANGED <<blocks, drawn>>
    /\ LayoutOnly

\* The callback requestRender() registered.
LayoutRender ==
    /\ rafNext # <<>> /\ Head(rafNext) = "requestRender"
    /\ renderScheduled' = FALSE
    /\ renderNeeded' = FALSE
    /\ IF renderNeeded
       THEN CommitBlocks(set([World EXCEPT !.q = Tail(rafNext)],
                             LayoutParams(blocks.host, state.k)))
       ELSE rafNext' = Tail(rafNext) /\ UNCHANGED <<blocks, drawn>>
    /\ UNCHANGED state
    /\ LayoutOnly

\* The loop callback, renderFrame reduced to its rebuild: none before the
\* first set(); a transition ends with this pass (done) or goes on.
LayoutLoop(done) ==
    /\ rafNext # <<>> /\ Head(rafNext) = "loop"
    /\ \E W0 \in {[World EXCEPT !.q = Tail(rafNext), !.b.rafId = FALSE]} :
           IF ~W0.b.needsFrame THEN CommitBlocks(W0)
           ELSE \E b1 \in {[W0.b EXCEPT !.needsFrame = FALSE]} :
                \E b2 \in {IF b1.params # NoParams /\ b1.layoutDirty
                           THEN Only({[r EXCEPT !.built[b1.size] = <<r.negBases, r.posBases>>] :
                                          r \in {rebuildLayout(b1)}})
                           ELSE b1} :
                \E b3 \in {IF done /\ b2.params # NoParams
                           THEN [b2 EXCEPT !.kTransition = NoKTransition] ELSE b2} :
                    CommitBlocks(IF b3.layoutDirty \/ b3.kTransition # NoKTransition
                                 THEN requestFrame([W0 EXCEPT !.b = b3])
                                 ELSE [W0 EXCEPT !.b = b3])
    /\ UNCHANGED <<state, renderScheduled, renderNeeded>>
    /\ LayoutOnly

\* force2D, and the loss of the WebGL context
LayoutFallback ==
    /\ blocks.mode = "webgl"
    /\ CommitBlocks(enable2DFallback(World, blocks.host))
    /\ UNCHANGED <<state, renderScheduled, renderNeeded>>
    /\ LayoutOnly

\* The page once its script has run: the object constructed, and render()
\* called (immediate build) or requestRender() (deferred build).
InitLayout ==
    /\ InitPageVars
    /\ state.stepMode
    /\ rafNow = <<>> /\ passes = 0 /\ drawn = NoDraw /\ reqLeft = 0
    /\ \E mode \in {"webgl", "2d"}, host \in LayoutSizes :
           IF build = "immediate"
           THEN \E W \in {set([b |-> NewLayoutBlocks(mode, host), q |-> <<"loop">>,
                               drawn |-> NoDraw], LayoutParams(host, 0))} :
                    blocks = W.b /\ rafNext = W.q
           ELSE /\ blocks = NewLayoutBlocks(mode, host)
                /\ rafNext = <<"loop", "requestRender">>

NextLayout ==
    \/ \E sz \in LayoutSizes : HostResized(sz)
    \/ \E k \in 0..MaxLevel : LayoutStep(k)
    \/ LayoutRender
    \/ \E done \in BOOLEAN : LayoutLoop(done)
    \/ LayoutFallback

SpecLayout == InitLayout /\ [][NextLayout]_vars

----------------------------------------------------------------------------
\* The levels the page hands to its block field: requests for levels several
\* steps away and taps on a marker, MaxEvents of them, while the display keeps
\* firing frames.
LevelTargets == K_MIN..(MaxLevel + 2)

NextLevels ==
    \/ FramesEndToEnd
    \/ \E x \in LevelTargets : LiveSetTargetK(x)
    \/ /\ reqLeft > 0
       /\ reqLeft' = reqLeft - 1
       /\ \/ \E u \in {17} : applyValueAtClientPoint(u, "a")
          \/ \E u \in {17} : applyValueAtClientPointDeferred(u, "a")

SpecLevels == InitEndToEnd /\ [][NextLevels]_vars /\ WF_vars(FramesEndToEnd)

----------------------------------------------------------------------------
\* The frame loop from the constructor on: the first set() is one of the
\* events, at either level, and may come after passes, a resize or a fallback.
InitFresh ==
    /\ PageLoaded
    /\ reqLeft = MaxEvents
    /\ rafNext = <<"loop">>
    /\ \E m \in {"webgl", "2d"}, le \in BOOLEAN : blocks = NewBlocks(m, le, LoadedSize)

SpecFresh == InitFresh /\ [][NextFrames]_vars /\ WF_vars(BlocksFrames)

----------------------------------------------------------------------------
\* The stepper with cancel(), which the page never calls: it arrives between
\* two display frames, like the requests.

\* A cancel that leaves the registered tick in place.
cancelLeaveTick ==
    /\ Between
    /\ running' = FALSE
    /\ rafId' = FALSE
    /\ UNCHANGED <<currentK, targetK, stepElapsed, stepMs, pageVars, rafNext, rafNow,
                   histVars, reqLeft, blockVars>>

\* cancel(): cancelAnimationFrame(this.rafId) takes the registered tick away.
cancel ==
    /\ Between
    /\ running' = FALSE
    /\ rafId' = FALSE
    /\ rafNext' = IF rafId THEN SelectSeq(rafNext, LAMBDA c : c # "tick") ELSE rafNext
    /\ UNCHANGED <<currentK, targetK, stepElapsed, stepMs, pageVars, rafNow,
                   histVars, reqLeft, blockVars>>

\* Targets near and far, and one beyond the lowest level.
CancelTargets == {K_MIN - 1, K_MIN + 2, K_MIN + 5}

NextCancel ==
    \/ Frames
    \/ \E x \in CancelTargets : SetTargetK(x)
    \/ \E d \in {-1, 1} : BumpK(d)
    \/ \E on \in BOOLEAN : ToggleStepMode(on)
    \/ cancel

SpecCancel == Init /\ [][NextCancel]_vars

----------------------------------------------------------------------------
\* The frame loop with destroy(), which the page never calls: it arrives once,
\* between two display frames, before, between or after the other events.

\* cancelAnimationFrame(this.rafId): the callback registered last goes.
CancelLoop(q) ==
    LET at == {i \in 1..Len(q) : q[i] = "loop"}
    IN  IF at = {} THEN q
        ELSE LET last == CHOOSE i \in at : \A j \in at : j <= i
             IN  SubSeq(q, 1, last - 1) \o SubSeq(q, last + 1, Len(q))

destroy(W) ==
    [W EXCEPT !.b.destroyed = TRUE, !.b.rafId = FALSE,
              !.q = IF W.b.rafId THEN CancelLoop(W.q) ELSE W.q]

Destroy ==
    /\ Between
    /\ ~blocks.destroyed
    /\ CommitBlocks(destroy(World))
    /\ BlocksOnly
    /\ UNCHANGED reqLeft

NextDestroy ==
    \/ NextFrames
    \/ Destroy

SpecDestroy == InitFrames /\ [][NextDestroy]_vars /\ WF_vars(BlocksFrames)

----------------------------------------------------------------------------
\* Claims about the stepper and the page.

\* The levels from s (excluded) to t (included), one step at a time.
Path(s, t) == [i \in 1..Abs(t - s) |-> s + i * Sign(t - s)]

IsPrefix(p, q) == Len(p) <= Len(q) /\ \A i \in 1..Len(p) : p[i] = q[i]

TickPending == \E i \in 1..Len(rafNext) : rafNext[i] = "tick"

TickQueued == \E i \in 1..Len(rafNow) : rafNow[i] = "tick"

\* C1: every invocation of the step callback reports a level one away from the
\* level the previous invocation reported (from the initial level for the first),
\* and the page level state.k changes only in such an invocation, to the level
\* reported, so by exactly one.
C1_StepByOne ==
    [][/\ stepParity' # stepParity =>
            /\ Abs(reported' - reported) = 1
            /\ state'.k = reported'
       /\ state'.k # state.k =>
            /\ stepParity' # stepParity
            /\ Abs(state'.k - state.k) = 1]_vars

C1_Witness == reported = 3 /\ state.k = 3 /\ targetK = 0 /\ running

\* C2: after a single request made while idle at level startK, the levels
\* announced so far are the first levels of the path from startK to the target,
\* and once the stepper has stopped they are the whole path: every level once,
\* in order, none when the target is the level itself.
C2_AnnouncedPath ==
    reqsSinceIdle = 1 =>
        /\ IsPrefix(announced, Path(startK, targetK))
        /\ ~running => announced = Path(startK, targetK)

C2_Witness ==
    /\ reqsSinceIdle = 1 /\ ~running
    /\ startK = 5 /\ targetK = 2 /\ Len(announced) = 3
    /\ stepMs = StepMsOff

\* The same with the step interval of the step mode.
C2_WitnessStepMode ==
    /\ reqsSinceIdle = 1 /\ ~running
    /\ startK = 0 /\ targetK = 2 /\ announced = <<1, 2>>
    /\ stepMs = StepMsOn

StepperIdle ==
    /\ ~running /\ ~rafId
    /\ ~TickPending /\ ~TickQueued
    /\ currentK = targetK

\* C3: when requests stop and frames keep firing, the stepper reaches its
\* target and stays idle from then on (not running, no tick pending), and an
\* idle stepper makes no step callback.
C3_EventuallyIdle ==
    /\ <>[]StepperIdle
    /\ [][StepperIdle => stepParity' = stepParity]_vars

C3_Witness == StepperIdle /\ reqLeft = 0 /\ currentK = K_MAX /\ reported = K_MAX

\* C4: both marker values are within the range of the current level.
C4_ValuesWithinRange ==
    /\ DecLeq(DecAbs(state.valueA), Pow10(state.k))
    /\ DecLeq(DecAbs(state.valueB), Pow10(state.k))

\* C5: in symmetric mode valueB = -valueA in every state.
C5_Symmetric == state.symmetric => state.valueB = DecNeg(state.valueA)

C5_Witness ==
    /\ state.symmetric
    /\ transition # NoTransition /\ transition.fromK = 1 /\ transition.toK = 0
    /\ state.valueA = Norm(-1, 0) /\ state.valueB = Norm(1, 0)
    /\ state.k = 0

\* C7: every invocation of the step callback leaves a Transition from the level
\* before the step to the level after it, one apart, started now (nothing
\* elapsed, whatever the transition it replaces had elapsed) with the full
\* duration.
C7_FreshTransition ==
    [][stepParity' # stepParity =>
          /\ Abs(state'.k - state.k) = 1
          /\ transition' = [fromK |-> state.k, toK |-> state'.k,
                            elapsed |-> 0, durationMs |-> TransitionMs]]_vars

C7_Witness ==
    /\ transition # NoTransition
    /\ transition.fromK = 1 /\ transition.toK = 0 /\ transition.elapsed = 0
    /\ stepMs = StepMsOff /\ stepParity = FALSE

\* C12: the target level the page shows, the stepper's target, the stepper's
\* level and the page's level are whole numbers in K_MIN..K_MAX, and the target
\* is the level last requested, or the bound that request went beyond.
C12_LevelsWithinBounds ==
    /\ state.targetK \in K_MIN..K_MAX /\ targetK \in K_MIN..K_MAX
    /\ currentK \in K_MIN..K_MAX /\ state.k \in K_MIN..K_MAX
    /\ targetK = state.targetK
    /\ requested > K_MAX => targetK = K_MAX
    /\ requested < K_MIN => targetK = K_MIN
    /\ requested \in K_MIN..K_MAX => targetK = requested

\* The tick callbacks registered or about to run.
TicksPending ==
    Cardinality({i \in 1..Len(rafNext) : rafNext[i] = "tick"})
        + Cardinality({i \in 1..Len(rafNow) : rafNow[i] = "tick"})

\* C13: a request made while the stepper is stepping leaves the level, the time
\* since the last step, the running flag and the callbacks registered as they
\* are, and makes no step; at most one tick is pending at any time; and every
\* step goes one level toward the target of the last request.
C13_RetargetInPlace ==
    /\ [](TicksPending <= 1)
    /\ [][(running /\ (targetK' # targetK \/ requested' # requested)) =>
            /\ currentK' = currentK /\ stepElapsed' = stepElapsed
            /\ running' /\ rafId' = rafId
            /\ rafNext' = rafNext /\ rafNow' = rafNow
            /\ stepParity' = stepParity]_vars
    /\ [][stepParity' # stepParity =>
            /\ targetK' = targetK
            /\ currentK' = currentK + Sign(targetK - currentK)
            /\ reported' = currentK']_vars

C13_Witness ==
    /\ running /\ reqsSinceIdle = 2
    /\ stepMs = StepMsOn /\ stepElapsed = FrameMs
    /\ startK = 0 /\ currentK = 2 /\ targetK = 0 /\ reported = 2

C12_Witness ==
    /\ requested = K_MAX + 1 /\ targetK = K_MAX
    /\ currentK = K_MAX /\ state.k = K_MAX
    /\ ~running

----------------------------------------------------------------------------
\* Claims about the block field and its frame loop.

\* n = clamp(floor(|trunc(v)| / 10^max(0, k - 4)), 0, 10000), stated without the
\* division: n blocks of 10^max(0, k - 4) fit into |trunc(v)| and n + 1 do not,
\* or n is the cap.
IsBlockCount(n, k, v) ==
    LET whole == DecAbs(DecTrunc(v))
        u == IF k > 4 THEN k - 4 ELSE 0
    IN  /\ n \in 0..10000
        /\ DecLeq(Norm(n, u), whole)
        /\ n = 10000 \/ DecLt(whole, Norm(n + 1, u))

\* C6: at every level k in 0..16 and for marker values a, b within 10^k, a
\* stable render pass draws clamp(floor(|trunc(min(a, b, 0))| / 10^max(0, k - 4)),
\* 0, 10000) active blocks on the negative side and the same of max(a, b, 0) on
\* the positive side, in the WebGL fields and in the 2D fallback.
C6_BlockCounts ==
    (drawn # NoDraw /\ drawn.stable) =>
        LET p == drawn.of
        IN  /\ DecLeq(DecAbs(p.valueA), Pow10(p.k)) /\ DecLeq(DecAbs(p.valueB), Pow10(p.k))
            /\ IsBlockCount(drawn.negCount, p.k, DecMin(DecMin(p.valueA, p.valueB), Zero))
            /\ IsBlockCount(drawn.posCount, p.k, DecMax(DecMax(p.valueA, p.valueB), Zero))
            /\ blocks.mode = "webgl" =>
                   /\ blocks.fields[blocks.activeField].negCount = drawn.negCount
                   /\ blocks.fields[blocks.activeField].posCount = drawn.posCount

C6_Witness ==
    /\ drawn # NoDraw /\ drawn.stable
    /\ drawn.of.k = 8
    /\ drawn.of.valueA = Norm(-1234, 2) /\ drawn.of.valueB = Norm(55, 6)
    /\ drawn.negCount = 12 /\ drawn.posCount = 5500

\* Exactly one field is visible, the active one, at scale 1, with the stable
\* counts of the parameters the last pass read, which are of the current level.
OneStableField ==
    LET active == blocks.fields[blocks.activeField]
        other == blocks.fields[1 - blocks.activeField]
    IN  /\ active.visible /\ ~other.visible
        /\ active.scaleLog = 0
        /\ drawn.of.k = blocks.params.k
        /\ active.negCount = applyCounts(drawn.of).negCount
        /\ active.posCount = applyCounts(drawn.of).posCount

LoopsPending ==
    Cardinality({i \in 1..Len(rafNext) : rafNext[i] = "loop"})
        + Cardinality({i \in 1..Len(rafNow) : rafNow[i] = "loop"})

\* C9: at most one frame-loop callback is pending at any time, and at most one
\* render pass is made per display frame.
C9_OneCallbackOnePass == LoopsPending <= 1 /\ passes <= 1

BlocksIdle == ~blocks.rafId /\ LoopsPending = 0

\* C10: once the requests have stopped and frames keep firing, the frame loop
\* goes idle for good: no callback pending, in the WebGL backend and in the 2D
\* fallback.
C10_EventuallyIdle == <>[]BlocksIdle

\* The frame loop goes idle for good in the runs that stay in the WebGL backend.
IdleInWebGL == <>[](blocks.mode = "webgl" => BlocksIdle)

\* C11: the mode is webgl or 2d; a step that changes it changes it from webgl to
\* 2d, so a mode of 2d stays; after a context loss the mode is 2d; and the switch
\* is one step that leaves a layout rebuild and a frame requested in the new mode.
C11_OneWayFallback ==
    /\ [](blocks.mode \in {"webgl", "2d"})
    /\ [](blocks.context = "lost" => blocks.mode = "2d")
    /\ [][blocks.mode = "2d" => blocks'.mode = "2d"]_vars
    /\ [][blocks'.mode # blocks.mode =>
            /\ blocks.mode = "webgl" /\ blocks'.mode = "2d"
            /\ blocks'.layoutDirty /\ blocks'.needsFrame /\ blocks'.rafId]_vars

C11_Witness ==
    /\ blocks.mode = "2d" /\ blocks.context = "lost" /\ blocks.checkedBlackFrame
    /\ drawn # NoDraw /\ drawn.stable /\ passes = 1
    /\ reqLeft = 0

----------------------------------------------------------------------------
\* Claims about the mapping in pixels.

\* C15: building a mapping for a negative level throws instead of returning a
\* mapping.
C15_RejectsBadLevel ==
    (probe.op = "createLadderEngine" /\ probe.k < 0) => probe.outcome = "threw"

\* The range of a mapping of a level in K_MIN..K_MAX for a width of a pixel or
\* more, as fractions.
ProbeInRange == probe.op # "none" /\ probe.k \in K_MIN..K_MAX /\ probe.width10 >= 10

\* C16: for a level in 0..16 and a width W >= 1, the mapping is floor(W) wide;
\* 0 sits at its center, -10^k at its left edge and +10^k at its right edge, in
\* both directions; at level 0 the ends are -1 and +1.
C16_RangeAcrossWidth ==
    ProbeInRange =>
        LET w == probe.eng.width
            top == QDec(Pow10(probe.k))
        IN  /\ w = probe.width10 \div 10
            /\ probe.eng.k = probe.k
            /\ probe.eng.maxAbsValue = Pow10(probe.k)
            /\ probe.k = 0 => top = QRat(1, 1)
            /\ probe.op = "valueAt" =>
                   /\ probe.x = QRat(w, 2) => probe.value = QRat(0, 1)
                   /\ probe.x = QRat(0, 1) => probe.value = QNeg(top)
                   /\ probe.x = QRat(w, 1) => probe.value = top
            /\ probe.op = "valueToX" =>
                   /\ probe.value = QRat(0, 1) => probe.x = QRat(w, 2)
                   /\ probe.value = QNeg(top) => probe.x = QRat(0, 1)
                   /\ probe.value = top => probe.x = QRat(w, 1)

C16_Witness ==
    /\ ProbeInRange /\ probe.op = "valueAt"
    /\ probe.k = K_MAX /\ probe.width10 = 205 /\ probe.eng.width = 20
    /\ probe.x = QRat(20, 1) /\ probe.value = QDec(Pow10(K_MAX))

\* C17: for a level in 0..16, the position of the value under a pixel offset is
\* that offset and the value under the position of a value is that value; the
\* mapping does not clamp: an offset beyond an edge has a value beyond the range
\* and a value beyond the range has a position beyond the edge.
C17_AffineInverses ==
    ProbeInRange /\ probe.op \in {"valueAt", "valueToX"} =>
        LET w == QRat(probe.eng.width, 1)
            top == QDec(Pow10(probe.k))
        IN  /\ probe.op = "valueAt" => probe.back = probe.x
            /\ probe.op = "valueToX" => probe.back = probe.value
            /\ QLeq(QRat(0, 1), probe.x) <=> QLeq(QNeg(top), probe.value)
            /\ QLeq(probe.x, w) <=> QLeq(probe.value, top)

C17_Witness ==
    /\ ProbeInRange /\ probe.op = "valueToX"
    /\ probe.k = K_MAX /\ probe.width10 = 75
    /\ probe.value = QDec(Norm(-1234, K_MAX - 4))
    /\ probe.x # QRat(0, 1) /\ probe.back = probe.value


----------------------------------------------------------------------------
\* Claims about the ripple list.

\* The steps of SpecRipples that are a tap.
Tapped == reqLeft' # reqLeft

\* C18: a tap appends two ripples of age 0 at the same height, at x and at
\* width - x, after ripples the list already held; the list is made of such
\* pairs, so its length is even.
C18_MirroredPairs ==
    /\ [](/\ Len(blocks.ripples) % 2 = 0
          /\ \A j \in 1..(Len(blocks.ripples) \div 2) :
                 LET a == blocks.ripples[2 * j - 1]
                     b == blocks.ripples[2 * j]
                 IN  /\ a.age = b.age /\ a.y = b.y
                     /\ a.x + b.x \in {sz[1] : sz \in Sizes})
    /\ [][Tapped =>
            LET old == blocks.ripples
                new == blocks'.ripples
                n == Len(new)
            IN  /\ n >= 2
                /\ new[n - 1].age = 0 /\ new[n].age = 0
                /\ new[n - 1].y = new[n].y
                /\ new[n - 1].y = blocks.size[2] - 1
                /\ new[n - 1].x = 1
                /\ new[n].x = blocks.size[1] - 1
                /\ n - 2 <= Len(old)
                /\ \A i \in 1..(n - 2) : new[i] = old[Len(old) - (n - 2) + i]]_vars

C18_Witness ==
    /\ Len(blocks.ripples) = 4
    /\ blocks.ripples[1].x = 1 /\ blocks.ripples[2].x = 2
    /\ blocks.ripples[3].x = 1 /\ blocks.ripples[4].x = 5
    /\ blocks.ripples[2].age = 3 * FrameMs /\ blocks.ripples[4].age = 0

\* C19: the list holds at most 16 ripples, 8 on the low-end tier, oldest first;
\* a tap that would go beyond the cap drops from the front; while a ripple is
\* in the list a loop callback is pending, and a pass of the loop leaves no
\* ripple whose age has reached diag / 520 + 1.2 s; once the taps stop the list
\* empties for good.
C19_BoundedAndPruned ==
    /\ [](Len(blocks.ripples) <= (IF blocks.lowEnd THEN 8 ELSE 16))
    /\ [](\A i \in 1..(Len(blocks.ripples) - 1) :
              blocks.ripples[i].age >= blocks.ripples[i + 1].age)
    /\ [][Tapped =>
            Len(blocks'.ripples) =
                IntMin(Len(blocks.ripples) + 2, IF blocks.lowEnd THEN 8 ELSE 16)]_vars
    /\ [](blocks.ripples # <<>> =>
              /\ blocks.rafId /\ blocks.needsFrame
              /\ \E i \in 1..Len(rafNext \o rafNow) : (rafNext \o rafNow)[i] = "loop")
    /\ [][passes' = passes + 1 =>
            \A i \in 1..Len(blocks'.ripples) :
                520 * blocks'.ripples[i].age < 1000 * Hypot(blocks.size) + 520 * 1200]_vars
    /\ <>[](blocks.ripples = <<>>)

C19_Witness ==
    /\ ~blocks.lowEnd /\ reqLeft = 0
    /\ Len(blocks.ripples) = 16
    /\ blocks.ripples[1].age = 3 * FrameMs /\ blocks.ripples[16].age = 0


\* C20: a ripple scales an active block by 1 + w held within [-0.70, 1.05] and
\* a base-grid block by 1 + w held within [-0.40, 0.70], so the scale is
\* between 0.30 and 2.05 times, or 0.60 and 1.70 times, the size at rest, and
\* never zero or negative.
C20_ScaleWithinBounds ==
    probe.op = "deform" =>
        LET lo == IF probe.kind = "active" THEN Norm(-70, -2) ELSE Norm(-40, -2)
            hi == IF probe.kind = "active" THEN Norm(105, -2) ELSE Norm(70, -2)
            least == IF probe.kind = "active" THEN QRat(30, 100) ELSE QRat(60, 100)
            most == IF probe.kind = "active" THEN QRat(205, 100) ELSE QRat(170, 100)
            held == IF DecLt(probe.w, lo) THEN lo
                    ELSE IF DecLt(hi, probe.w) THEN hi ELSE probe.w
        IN  /\ probe.s = QMul(probe.base, QAdd(QRat(1, 1), QDec(held)))
            /\ QLeq(QMul(least, probe.base), probe.s)
            /\ QLeq(probe.s, QMul(most, probe.base))
            /\ probe.s.n > 0

C20_Witness ==
    /\ probe.op = "deform" /\ probe.kind = "active"
    /\ probe.w = Norm(-3, 0) /\ probe.base = QRat(16, 10)
    /\ probe.s = QRat(48, 100)

----------------------------------------------------------------------------
\* End to end: a tap, a level bump, and what the renderer shows.

\* The last frame drawn shows one field at scale 1: a stable pass, or the last
\* pass of a cross-fade, where the incoming field is at scale 1 and the
\* outgoing one has faded out.  The last pass of a single-field or 2D transition
\* draws its field at 10^(-dir).
ShowsOneFieldAtScaleOne ==
    /\ drawn # NoDraw
    /\ \/ drawn.stable
       \/ /\ drawn.zoom.cross
          /\ drawn.zoom.elapsed >= drawn.zoom.durMs
          /\ drawn.zoom.toScaleLog = 0

\* The view of level 1 with the markers at 0.7 and -0.7 once it has settled:
\* no transition at either layer, and the last frame drawn is of the level-1
\* parameters alone at scale 1 with no active block on either side.
SettledAtLevelOne ==
    /\ transition = NoTransition
    /\ blocks.kTransition = NoKTransition
    /\ ShowsOneFieldAtScaleOne
    /\ drawn.of.k = 1
    /\ drawn.negCount = 0 /\ drawn.posCount = 0

AtLevelOne ==
    state.k = 1 /\ state.valueA = Norm(7, -1) /\ state.valueB = Norm(-7, -1)

\* C21: from level 0 in symmetric mode, a tap that puts marker A on 0.7 puts
\* B on -0.7, both within [-1, 1]; the step from level 0 to level 1 starts a
\* transition from 0 to 1 and leaves both values as they were; and once the
\* events have stopped at level 1 with the markers on 0.7 and -0.7, the
\* renderer ends up showing only the level-1 field at scale 1 with no active
\* block on either side.
C21_TapBumpSettle ==
    /\ [][(state.k = 0 /\ state.symmetric /\ state'.valueA = Norm(7, -1)
            /\ state.valueA # Norm(7, -1))
             => (/\ state'.valueB = Norm(-7, -1)
                 /\ DecLeq(DecAbs(state'.valueA), Pow10(0))
                 /\ DecLeq(DecAbs(state'.valueB), Pow10(0)))]_vars
    /\ [][(state.k = 0 /\ state'.k = 1)
             => (/\ transition' = [fromK |-> 0, toK |-> 1, elapsed |-> 0,
                                    durationMs |-> TransitionMs]
                 /\ state'.valueA = state.valueA
                 /\ state'.valueB = state.valueB)]_vars
    /\ <>[](AtLevelOne => SettledAtLevelOne)

\* The same in the runs that stay in the WebGL backend with two fields.
SettlesInCrossFade ==
    <>[]((AtLevelOne /\ blocks.mode = "webgl" /\ ~blocks.lowEnd) => SettledAtLevelOne)

\* The tap and the step of C21, taken alone.
TapAndStep ==
    /\ [][(state.k = 0 /\ state.symmetric /\ state'.valueA = Norm(7, -1)
            /\ state.valueA # Norm(7, -1))
             => (/\ state'.valueB = Norm(-7, -1)
                 /\ DecLeq(DecAbs(state'.valueA), Pow10(0))
                 /\ DecLeq(DecAbs(state'.valueB), Pow10(0)))]_vars
    /\ [][(state.k = 0 /\ state'.k = 1)
             => (/\ transition' = [fromK |-> 0, toK |-> 1, elapsed |-> 0,
                                    durationMs |-> TransitionMs]
                 /\ state'.valueA = state.valueA
                 /\ state'.valueB = state.valueB)]_vars

\* C22: for the same level and marker values and no transition, the 2D
\* fallback draws the number of active blocks per side that the WebGL path
\* sets on its active field, on either capability tier.
C22_SameCountsIn2D ==
    (drawn # NoDraw /\ drawn.stable) =>
        /\ drawn.negCount = applyCounts(drawn.of).negCount
        /\ drawn.posCount = applyCounts(drawn.of).posCount
        /\ blocks.mode = "webgl" =>
               /\ blocks.fields[blocks.activeField].negCount = drawn.negCount
               /\ blocks.fields[blocks.activeField].posCount = drawn.posCount

C22_Witness ==
    /\ blocks.mode = "2d" /\ blocks.lowEnd
    /\ drawn # NoDraw /\ drawn.stable
    /\ drawn.of.k = 8
    /\ drawn.of.valueA = Norm(-1234, 2) /\ drawn.of.valueB = Norm(55, 6)
    /\ drawn.negCount = 12 /\ drawn.posCount = 5500

----------------------------------------------------------------------------
\* The page's render passes.

\* The page-render callbacks in a list of refresh callbacks: render itself, or
\* the callback of requestRender.
Renders(q) == Cardinality({i \in 1..Len(q) : q[i] \in {"render", "requestRender"}})

\* C23: the page-level render requests made within one frame interval (pointer
\* events, a step callback, the continuation of a transition) leave a single
\* render callback for the next refresh, and a refresh runs at most one.
C23_OneRenderPerFrame == Renders(rafNext) <= 1 /\ Renders(rafNow) <= 1

\* The same, in the build whose handlers call requestRender().
OneRenderPerFrameDeferred == build = "deferred" => C23_OneRenderPerFrame

----------------------------------------------------------------------------
\* The stepper's ticks.

\* This step is one run of the tick callback.
TickRuns == rafNow # <<>> /\ Head(rafNow) = "tick" /\ rafNow' = Tail(rafNow)

C25_StepsAfterInterval ==
    /\ [][stepParity' # stepParity
             => (TickRuns /\ stepElapsed >= stepMs /\ stepElapsed' = 0)]_vars
    /\ [][(TickRuns /\ stepMs > 0 /\ stepElapsed < stepMs)
             => (/\ stepParity' = stepParity /\ reported' = reported
                 /\ currentK' = currentK /\ state' = state
                 /\ stepElapsed' = stepElapsed)]_vars
    /\ [][(~running /\ running') => stepElapsed' = 0]_vars

C25_Witness ==
    /\ stepMs = StepMsOn /\ running /\ currentK # targetK
    /\ stepElapsed = 2 * FrameMs /\ reported = 1 /\ currentK = 1
    /\ rafNext = <<"tick">> /\ rafNow = <<>>

\* C26: the stepper is idle (not running, no tick scheduled) exactly when its
\* level is the target, and stepping (running, a tick pending) exactly when it
\* is not.
C26_IdleIffAtTarget ==
    /\ (~running /\ ~rafId /\ TicksPending = 0) <=> (currentK = targetK)
    /\ (running /\ TicksPending = 1) <=> (currentK # targetK)

\* One direction of each: away from the target the stepper is stepping, and an
\* idle stepper is at its target.
SteppingWhileAway ==
    /\ currentK # targetK => (running /\ TicksPending = 1)
    /\ ~running => (currentK = targetK /\ TicksPending = 0)

----------------------------------------------------------------------------
\* The page's level requests and steps.

HeldWithin(v, k) ==
    IF DecLeq(DecAbs(v), Pow10(k)) THEN v
    ELSE IF v.m < 0 THEN DecNeg(Pow10(k)) ELSE Pow10(k)

\* C28: a step that raises the level leaves both values as they are; a step
\* that lowers it to level k leaves valueA as it is when |valueA| <= 10^k and
\* otherwise puts it on the bound of the new range with the same sign, and
\* valueB likewise, or on -valueA in symmetric mode; so a raise after a
\* lowering does not bring a clamped value back.
C28_StepKeepsOrClamps ==
    [][stepParity' # stepParity =>
          /\ state'.k > state.k =>
                 /\ state'.valueA = state.valueA
                 /\ state'.valueB = state.valueB
          /\ state'.k < state.k =>
                 /\ state'.valueA = HeldWithin(state.valueA, state'.k)
                 /\ state'.valueB = IF state.symmetric THEN DecNeg(state'.valueA)
                                     ELSE HeldWithin(state.valueB, state'.k)]_vars

C28_Witness ==
    /\ ~state.symmetric /\ state.k = 0
    /\ transition # NoTransition /\ transition.fromK = 1 /\ transition.elapsed = 0
    /\ state.valueA = Norm(-1, 0) /\ state.valueB = Norm(7, -1)

\* This step is a pointer handler that reads the cached engine.
ReadsEngine ==
    \E u \in DragUnits, c \in {"a", "b"} :
        applyValueAtClientPoint(u, c) \/ applyValueAtClientPointDeferred(u, c)

\* C29: whenever an input handler reads the cached engine, the engine is of
\* the page's level: engine.k = state.k.
C29_EngineOfCurrentLevel == [][ReadsEngine => engine.k = state.k]_vars

\* The same, in the build whose step callback ends with render().
EngineOfCurrentLevelImmediate ==
    [][(ReadsEngine /\ build = "immediate") => engine.k = state.k]_vars

----------------------------------------------------------------------------
\* The counts drawn during a transition.

\* The times into the transition at which the counts are compared: every
\* twelfth of the duration.
ProgressSamples == {(i * kAnimDurMs) \div 12 : i \in 0..12}

\* What a pass would draw e ms into the transition that is on.
DrawnAt(e) == drawFrame([World EXCEPT !.b.kTransition.elapsed = e], FALSE).drawn

InTransition ==
    blocks # NoBlocks /\ blocks.params # NoParams /\ blocks.kTransition # NoKTransition

\* n is between a and b, whichever is the larger.
Amid(n, a, b) == IntMin(a, b) <= n /\ n <= IntMax(a, b)

InterpolatedCounts ==
    LET from == applyCounts(blocks.kTransition.fromParams)
        to == applyCounts(blocks.kTransition.toParams)
    IN  /\ \A e \in ProgressSamples :
               \E d \in {DrawnAt(e)} :
                   /\ Amid(d.negCount, from.negCount, to.negCount)
                   /\ Amid(d.posCount, from.posCount, to.posCount)
                   /\ d.negCount \in 0..MaxBlocks /\ d.posCount \in 0..MaxBlocks
        /\ \E d \in {DrawnAt(0)} :
               d.negCount = from.negCount /\ d.posCount = from.posCount
        /\ \E d \in {DrawnAt(kAnimDurMs)} :
               d.negCount = to.negCount /\ d.posCount = to.posCount
        /\ \A e1, e2 \in ProgressSamples :
               e1 <= e2 =>
                   \E d1 \in {DrawnAt(e1)}, d2 \in {DrawnAt(e2)} :
                       /\ Amid(d1.negCount, from.negCount, d2.negCount)
                       /\ Amid(d1.posCount, from.posCount, d2.posCount)

\* C30: during a transition the number of active blocks a pass draws on the
\* incoming field is between the from-level and the to-level count and within
\* 0..10000, is the from-level count at progress 0 and the to-level count at
\* progress 1, and moves one way as progress grows.
C30_InterpolatedCounts == InTransition => InterpolatedCounts

\* The same in the WebGL backend, on either tier.
InterpolatedCountsInWebGL ==
    (InTransition /\ blocks.mode = "webgl") => InterpolatedCounts

----------------------------------------------------------------------------
\* The active field.

\* C31: activeField is 0 or 1; while a transition of the two-field tier is
\* on, its outgoing field is activeField and its incoming field the other one;
\* activeField changes only in the render pass that completes such a
\* transition, to the incoming field, and that pass leaves the other field
\* hidden at scale 1; a set() call, also one that replaces a transition, leaves
\* activeField alone; and on the single-field tier it never changes.
C31_ActiveField ==
    /\ [](blocks.activeField \in {0, 1})
    /\ []((blocks.kTransition # NoKTransition /\ ~blocks.kTransition.singleField)
             => /\ blocks.kTransition.fromField = blocks.activeField
                /\ blocks.kTransition.toField = 1 - blocks.activeField)
    /\ [][blocks'.activeField # blocks.activeField
             => /\ passes' = passes + 1
                /\ blocks.mode = "webgl"
                /\ blocks.kTransition # NoKTransition
                /\ ~blocks.kTransition.singleField
                /\ blocks.kTransition.elapsed >= blocks.kTransition.durMs
                /\ blocks'.activeField = blocks.kTransition.toField
                /\ blocks'.kTransition = NoKTransition
                /\ ~blocks'.fields[blocks.activeField].visible
                /\ blocks'.fields[blocks.activeField].scaleLog = 0]_vars
    /\ [][blocks'.params # blocks.params
             => blocks'.activeField = blocks.activeField]_vars
    /\ [][blocks.lowEnd => blocks'.activeField = blocks.activeField]_vars

C31_Witness ==
    /\ blocks.mode = "webgl" /\ ~blocks.lowEnd
    /\ blocks.activeField = 1
    /\ blocks.kTransition # NoKTransition
    /\ blocks.kTransition.fromField = 1 /\ blocks.kTransition.toField = 0
    /\ blocks.kTransition.elapsed = FrameMs
    /\ blocks.fields[0].visible /\ blocks.fields[1].visible

----------------------------------------------------------------------------
\* The dirty record.

\* A side's record is consistent: the list holds each marked index once and
\* nothing else, and is no longer than the grid has blocks.
ConsistentDirty(rec) ==
    /\ Range(rec.list) = rec.mark
    /\ Len(rec.list) = Cardinality(rec.mark)
    /\ \A i, j \in 1..Len(rec.list) : rec.list[i] = rec.list[j] => i = j
    /\ rec.mark \subseteq BlockIndices
    /\ Len(rec.list) <= Cardinality(BlockIndices)
    /\ Cardinality(BlockIndices) <= MaxBlocks

\* A stable WebGL pass made with no live ripple.
StableQuietPass ==
    /\ blocks'.pass = "stable"
    /\ ~(blocks'.ripplesEnabled /\ blocks'.ripples > 0)

\* C32: on each side the dirty list holds every marked index exactly once,
\* its length is the number of marked indices and never more than the number
\* of blocks of the grid; and a stable WebGL pass made with no live ripple
\* puts every listed block back to its scale at rest and empties the record.
C32_DirtyRecord ==
    /\ [](ConsistentDirty(blocks.dirtyNeg) /\ ConsistentDirty(blocks.dirtyPos))
    /\ [][StableQuietPass
             => /\ blocks'.dirtyNeg = NoDirty /\ blocks'.dirtyPos = NoDirty
                /\ blocks'.restoredNeg = Range(blocks.dirtyNeg.list)
                /\ blocks'.restoredPos = Range(blocks.dirtyPos.list)]_vars

\* A pass has just put back both blocks of one side and one of the other.
C32_Witness ==
    /\ blocks.pass = "stable"
    /\ blocks.restoredNeg = BlockIndices
    /\ blocks.restoredPos # {}
    /\ blocks.dirtyNeg = NoDirty /\ blocks.dirtyPos = NoDirty

\* Both lists hold several indices while a ripple is alive.
DirtyWhileRippling ==
    /\ blocks.ripples > 0
    /\ Len(blocks.dirtyNeg.list) = Cardinality(BlockIndices)
    /\ Len(blocks.dirtyPos.list) > 0

----------------------------------------------------------------------------
\* The block layout.

\* A step that is a set() call alone, after the first, with the size it finds.
SetWithSameSize ==
    /\ blocks.params # NoParams
    /\ blocks'.params # blocks.params
    /\ blocks'.host = blocks.host
    /\ blocks'.size = blocks.size
    /\ blocks'.mode = blocks.mode

\* A step that rebuilds the layout.
Rebuilds == blocks.layoutDirty /\ ~blocks'.layoutDirty

\* A set() call that changes only the level or the marker values leaves
\* layoutDirty as it is, and the lists change only in a rebuild.
LazyLayout ==
    /\ [][SetWithSameSize => blocks'.layoutDirty = blocks.layoutDirty]_vars
    /\ [][(blocks'.negBases # blocks.negBases \/ blocks'.posBases # blocks.posBases)
             => Rebuilds]_vars

\* A rebuild leaves 10000 blocks on each side.
FullGrid ==
    [][Rebuilds => blocks'.negBases.count = MaxBlocks /\ blocks'.posBases.count = MaxBlocks]_vars

\* A rebuild for a size the layout was built for before leaves the lists as
\* that rebuild left them.
SameLayoutForSameSize ==
    [][(Rebuilds /\ blocks.built[blocks.size] # <<>>)
          => <<blocks'.negBases, blocks'.posBases>> = blocks.built[blocks.size]]_vars

\* C33: set() with the size unchanged never marks the layout dirty, the block
\* lists change only in a rebuild, a rebuild fills 100 x 100 blocks on each
\* side, and two rebuilds for the same size give the same lists.
C33_LazyIdempotentLayout == LazyLayout /\ FullGrid /\ SameLayoutForSameSize

\* The same where render() runs inside the ResizeObserver callback.
SameLayoutForSameSizeImmediate ==
    [][(build = "immediate" /\ Rebuilds /\ blocks.built[blocks.size] # <<>>)
          => <<blocks'.negBases, blocks'.posBases>> = blocks.built[blocks.size]]_vars

\* A layout built for the size it still has, for the second time.
RebuiltForSameSize ==
    /\ ~blocks.layoutDirty
    /\ blocks.built[blocks.size] = <<blocks.negBases, blocks.posBases>>
    /\ \A sz \in LayoutSizes : blocks.built[sz] # <<>>
    /\ blocks.kTransition # NoKTransition

\* The two sides of a layout are built with different cell sizes.
LopsidedLayout ==
    /\ ~blocks.layoutDirty /\ blocks.negBases.count = MaxBlocks
    /\ blocks.negBases.at[0].s # blocks.posBases.at[0].s

----------------------------------------------------------------------------
\* The black-frame probe.

\* The probe callbacks registered and not yet run: the outer one ("probe")
\* and the one it registers ("checkBlackFrameOnce").
ProbeCallbacks(q) ==
    Cardinality({i \in 1..Len(q) : q[i] \in {"probe", "checkBlackFrameOnce"}})

ProbePending == ProbeCallbacks(rafNext) + ProbeCallbacks(rafNow) > 0

LoopRegistered(q) == \E i \in 1..Len(q) : q[i] = "loop"

\* C34: the probe is registered at most once for an object, by its first
\* WebGL render pass, as a callback of the next display frame that registers
\* the check for the frame after it; the check, when the backend is still
\* WebGL and the pixel is black (or the sampling throws), switches to the 2D
\* backend and requests a frame, and it changes nothing otherwise.
C34_BlackFrameProbe ==
    /\ [](ProbeCallbacks(rafNext) + ProbeCallbacks(rafNow) <= 1)
    /\ [](ProbePending => blocks.checkedBlackFrame)
    /\ [][blocks.checkedBlackFrame
             => /\ blocks'.checkedBlackFrame
                /\ ProbeCallbacks(rafNext') + ProbeCallbacks(rafNow')
                       <= ProbeCallbacks(rafNext) + ProbeCallbacks(rafNow)]_vars
    /\ [][(~blocks.checkedBlackFrame /\ blocks'.checkedBlackFrame)
             => /\ passes' = passes + 1
                /\ blocks.mode = "webgl"
                /\ \E i \in 1..Len(rafNext') : rafNext'[i] = "probe"
                /\ ProbeCallbacks(rafNow') = 0]_vars
    /\ [][(passes' = passes + 1 /\ blocks.mode = "webgl") => blocks'.checkedBlackFrame]_vars
    /\ [][Probe => /\ rafNext' = Append(rafNext, "checkBlackFrameOnce")
                   /\ blocks' = blocks]_vars
    /\ [][\A black \in BOOLEAN, sz \in Sizes :
              checkBlackFrameOnce(black, sz)
                  => IF blocks.mode = "webgl" /\ black
                     THEN /\ blocks'.mode = "2d"
                          /\ blocks'.needsFrame /\ blocks'.rafId
                          /\ LoopRegistered(rafNext') \/ LoopRegistered(rafNow')
                     ELSE blocks' = blocks /\ rafNext' = rafNext]_vars
    /\ (ProbePending ~> ~ProbePending)

\* The check has switched the backend: no event has happened, the context is
\* alive, and the 2D backend is on.
C34_Witness ==
    /\ reqLeft = MaxEvents
    /\ blocks.mode = "2d" /\ blocks.context = "live"
    /\ blocks.checkedBlackFrame /\ ~ProbePending
    /\ blocks.needsFrame

\* The check ran on the 2D backend and did nothing.
ProbeFoundFallback ==
    /\ blocks.mode = "2d" /\ blocks.checkedBlackFrame
    /\ rafNow # <<>> /\ Head(rafNow) = "checkBlackFrameOnce"

----------------------------------------------------------------------------
\* The levels handed to set().

\* C35: two consecutive set() calls are given levels at most 1 apart, so a
\* transition of the block field is between adjacent levels and its dir is the
\* difference of the two levels.
C35_AdjacentLevels ==
    /\ [][(blocks.params # NoParams /\ blocks'.params.k # blocks.params.k)
             => Abs(blocks'.params.k - blocks.params.k) = 1]_vars
    /\ [](blocks.kTransition # NoKTransition
             => /\ Abs(blocks.kTransition.toParams.k - blocks.kTransition.fromParams.k) = 1
                /\ blocks.kTransition.dir
                       = blocks.kTransition.toParams.k - blocks.kTransition.fromParams.k)

\* A request three levels up is on its way: the field goes from level 1 to
\* level 2 while the page is already at level 3 in the deferred build.
C35_Witness ==
    /\ build = "deferred"
    /\ state.targetK = MaxLevel + 2
    /\ blocks.kTransition # NoKTransition
    /\ blocks.kTransition.fromParams.k = 1 /\ blocks.kTransition.toParams.k = 2
    /\ state.k > blocks.params.k

----------------------------------------------------------------------------
\* set() during a transition.

\* C36: while a transition is on, params is the transition's toParams, and a
\* set() call with the level of toParams replaces toParams and leaves the
\* transition's elapsed time, duration, direction and fields, and the active
\* field, as they are.
C36_DragKeepsTransition ==
    /\ [](blocks.kTransition # NoKTransition => blocks.kTransition.toParams = blocks.params)
    /\ [][\A p \in FrameParams :
              (Set(p) /\ blocks.kTransition # NoKTransition
                      /\ p.k = blocks.kTransition.toParams.k)
                  => /\ blocks'.kTransition = [blocks.kTransition EXCEPT !.toParams = p]
                     /\ blocks'.params = p
                     /\ blocks'.activeField = blocks.activeField]_vars

\* A transition under way whose marker values have been replaced, after two
\* set() calls.
C36_Witness ==
    /\ reqLeft = MaxEvents - 2
    /\ blocks.kTransition # NoKTransition
    /\ blocks.kTransition.elapsed = FrameMs
    /\ blocks.kTransition.fromParams.valueA = Zero
    /\ blocks.kTransition.toParams.valueA # Zero
    /\ blocks.ripples = <<>> /\ blocks.size = blocks.kTransition.fromParams.size

----------------------------------------------------------------------------
\* The first set().

\* C37: before the first set() no transition is on and field 0 is active; the
\* first set(), whatever its level, stores the parameters and the size,
\* leaves field 0 active and alone visible, leaves no transition, marks the
\* layout dirty and requests a frame.
C37_FirstSet ==
    /\ [](blocks.params = NoParams
             => blocks.kTransition = NoKTransition /\ blocks.activeField = 0)
    /\ [][\A p \in FrameParams :
              (Set(p) /\ blocks.params = NoParams)
                  => /\ blocks'.params = p
                     /\ blocks'.size = p.size
                     /\ blocks'.activeField = 0
                     /\ blocks'.kTransition = NoKTransition
                     /\ blocks'.layoutDirty
                     /\ blocks'.needsFrame /\ blocks'.rafId
                     /\ blocks.mode = "webgl"
                            => blocks'.fields[0].visible /\ ~blocks'.fields[1].visible]_vars

\* The first set() has just been made, at the upper level, after a resize.
C37_Witness ==
    /\ reqLeft = MaxEvents - 2
    /\ blocks.params # NoParams /\ blocks.params.k = 5
    /\ blocks.size # LoadedSize
    /\ blocks.kTransition = NoKTransition
    /\ blocks.layoutDirty

----------------------------------------------------------------------------
\* cancel().

----------------------------------------------------------------------------
\* destroy().

\* No render pass is made on a destroyed object.
NoPassAfterDestroy == [][blocks.destroyed => passes' # passes + 1]_vars

\* No loop callback is registered for a destroyed object, and destroy()
\* registers nothing.
NoLoopAfterDestroy ==
    /\ [][blocks.destroyed
             => Cardinality({i \in 1..Len(rafNext') : rafNext'[i] = "loop"})
                    <= Cardinality({i \in 1..Len(rafNext) : rafNext[i] = "loop"})]_vars
    /\ [][(~blocks.destroyed /\ blocks'.destroyed)
             => Len(rafNext') <= Len(rafNext) /\ ~blocks'.rafId]_vars

ProbeAfterDestroy ==
    /\ blocks.destroyed /\ reqLeft = MaxEvents
    /\ blocks.mode = "2d" /\ blocks.context = "live"

====
